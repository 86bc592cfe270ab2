------------------------- MODULE Recordings_proofs --------------------------
(***************************************************************************)
(* Proofs about what records a tenant's work: captures, for any number of   *)
(* profiles and snapshots, and the record-write collector, for every cap,   *)
(* number of re-arms and attach attempts, and any number of record writes.  *)
(* Their inductive invariants are CaptureInv and TriageInv.                 *)
(***************************************************************************)
EXTENDS CaptureSlot, RecordWriteTriage, SequenceTheorems, FiniteSetTheorems, TLAPS

----------------------------------------------------------------------------
(* Captures *)

\* What the progress of a capture's start call says about the slot, the requests and the tenant.
StartInv(c) ==
  /\ pc[c] \in {"idle", "preparing"} => attach[c] = "none"
  /\ pc[c] = "attaching" => capture = c /\ phase[c] = "attaching"
  /\ pc[c] = "returned" => attach[c] = "ok" /\ phase[c] # "attaching" /\ c \in told
  /\ pc[c] = "failed" /\ attach[c] \in {"sent", "ok"} => c \in told \/ c \in Profiles
  /\ capture = c => pc[c] \in {"attaching", "returned"}
  /\ held = c => attach[c] = "ok"

\* What the requests and test runs of a capture say about its phase, and their answers about the tenant.
UseInv(c) ==
  /\ finish[c] # "none" \/ status[c] # "none" \/ c \in tests => pc[c] = "returned"
  /\ capture = c => /\ phase[c] = "finishing" <=> finish[c] # "none"
                    /\ phase[c] = "testing" <=> c \in tests
  /\ finish[c] \in {"ok", "lost"} \/ status[c] = "lost" => held # c
  /\ finish[c] = "converting" => c \in Profiles
  /\ c \in Profiles => status[c] = "none" /\ (finish[c] # "none" => phase[c] = "finishing")
  /\ pc[c] = "returned" /\ capture # c => IF c \in Profiles THEN phase[c] # "armed" ELSE held # c

\* TestLockExact, with "at most one run" said of the members.
LockInv ==
  /\ testRunActive <=> otherRun \/ tests # {}
  /\ otherRun => tests = {}
  /\ \A c, d \in tests : c = d

\* The inductive invariant.
CaptureInv == CaptureTypeOK /\ LockInv /\ \A c \in Captures : StartInv(c) /\ UseInv(c)

LEMMA CapturesDisjoint ==
  /\ NoCapture \notin Captures
  /\ \A c \in Captures : c \in Profiles <=> c \notin Snapshots
BY CaptureAssumption DEF Captures

\* Every step keeps every variable in its type.
LEMMA TypeStep ==
  ASSUME CaptureTypeOK, [CaptureNext]_captureVars
  PROVE  CaptureTypeOK'
<1> USE CapturesDisjoint DEF Request, client, captureVars
<1>1. CASE UNCHANGED captureVars
  BY <1>1 DEF CaptureTypeOK
<1>2. ASSUME NEW c \in Captures, Prepare(c) PROVE CaptureTypeOK'
  BY <1>2 DEF CaptureTypeOK, Prepare, Goto
<1>3. ASSUME NEW c \in Captures, Unprepared(c) PROVE CaptureTypeOK'
  BY <1>3 DEF CaptureTypeOK, Unprepared, Goto
<1>4. ASSUME NEW c \in Captures, Claim(c) PROVE CaptureTypeOK'
  BY <1>4 DEF CaptureTypeOK, Claim, Goto, SetPhase
<1>5. ASSUME NEW c \in Captures, Attached(c) PROVE CaptureTypeOK'
  BY <1>5 DEF CaptureTypeOK, Attached, Goto, SetPhase
<1>6. ASSUME NEW c \in Captures, AttachRejected(c) PROVE CaptureTypeOK'
  BY <1>6 DEF CaptureTypeOK, AttachRejected, Goto, Release
<1>7. ASSUME NEW c \in Captures, CaptureUnanswered(c) PROVE CaptureTypeOK'
  BY <1>7 DEF CaptureTypeOK, CaptureUnanswered, Goto, Release
<1>8. ASSUME NEW c \in Captures, Status(c) PROVE CaptureTypeOK'
  BY <1>8 DEF CaptureTypeOK, Status
<1>9. ASSUME NEW c \in Captures, StatusAnswered(c) PROVE CaptureTypeOK'
  BY <1>9 DEF CaptureTypeOK, StatusAnswered, Release
<1>10. ASSUME NEW c \in Captures, BeginFinish(c) PROVE CaptureTypeOK'
  BY <1>10 DEF CaptureTypeOK, BeginFinish, SetPhase
<1>11. ASSUME NEW c \in Captures, FinishAnswered(c) PROVE CaptureTypeOK'
  BY <1>11 DEF CaptureTypeOK, FinishAnswered, LeaveSlot, Release
<1>12. ASSUME NEW c \in Captures, Converted(c) PROVE CaptureTypeOK'
  BY <1>12 DEF CaptureTypeOK, Converted, LeaveSlot, Release
<1>13. ASSUME NEW c \in Captures, FinishGivesUp(c) PROVE CaptureTypeOK'
  BY <1>13 DEF CaptureTypeOK, FinishGivesUp, LeaveSlot, Release
<1>14. ASSUME NEW c \in Captures, FinishRejected(c) PROVE CaptureTypeOK'
  BY <1>14 DEF CaptureTypeOK, FinishRejected, LeavePhase, SetPhase
<1>15. ASSUME NEW c \in Captures, FinishUnsent(c) PROVE CaptureTypeOK'
  BY <1>15 DEF CaptureTypeOK, FinishUnsent, LeavePhase, LeaveSlot, SetPhase, Release
<1>16. ASSUME NEW c \in Captures, FinishUnanswered(c) PROVE CaptureTypeOK'
  BY <1>16 DEF CaptureTypeOK, FinishUnanswered, LeavePhase, LeaveSlot, SetPhase, Release
<1>17. ASSUME NEW c \in Captures, FinishOrphan(c) PROVE CaptureTypeOK'
  BY <1>17 DEF CaptureTypeOK, FinishOrphan
<1>18. ASSUME NEW c \in Captures, StartTests(c) PROVE CaptureTypeOK'
  BY <1>18 DEF CaptureTypeOK, StartTests, SetPhase
<1>19. ASSUME NEW c \in Captures, TestsOver(c) PROVE CaptureTypeOK'
  BY <1>19 DEF CaptureTypeOK, TestsOver, SetPhase
<1>20. ASSUME NEW c \in Captures, ServerAttaches(c) PROVE CaptureTypeOK'
  BY <1>20 DEF CaptureTypeOK, ServerAttaches
<1>21. ASSUME NEW c \in Captures, ServerReports(c) PROVE CaptureTypeOK'
  BY <1>21 DEF CaptureTypeOK, ServerReports
<1>22. ASSUME NEW c \in Captures, ServerFinishes(c) PROVE CaptureTypeOK'
  BY <1>22 DEF CaptureTypeOK, ServerFinishes
<1>23. ASSUME NEW c \in Captures, DelayedFinish(c) PROVE CaptureTypeOK'
  BY <1>23 DEF CaptureTypeOK, DelayedFinish
<1>24. CASE OtherRunStarts
  BY <1>24 DEF CaptureTypeOK, OtherRunStarts
<1>25. CASE OtherRunEnds
  BY <1>25 DEF CaptureTypeOK, OtherRunEnds
<1>26. CASE ServerForgets
  BY <1>26 DEF CaptureTypeOK, ServerForgets
<1> QED
  BY <1>1, <1>2, <1>3, <1>4, <1>5, <1>6, <1>7, <1>8, <1>9, <1>10, <1>11, <1>12, <1>13, <1>14, <1>15, <1>16, <1>17, <1>18, <1>19, <1>20, <1>21, <1>22, <1>23, <1>24, <1>25, <1>26 DEF CaptureNext, Proceed

\* Only the call that runs tests gives the test-run lock back.
LEMMA LockStep ==
  ASSUME CaptureTypeOK, LockInv, [CaptureNext]_captureVars
  PROVE  LockInv'
<1> USE CapturesDisjoint DEF Request, client, captureVars
<1>1. CASE UNCHANGED captureVars
  BY <1>1 DEF CaptureTypeOK, LockInv
<1>2. ASSUME NEW c \in Captures, Prepare(c) PROVE LockInv'
  BY <1>2 DEF CaptureTypeOK, LockInv, Prepare, Goto
<1>3. ASSUME NEW c \in Captures, Unprepared(c) PROVE LockInv'
  BY <1>3 DEF CaptureTypeOK, LockInv, Unprepared, Goto
<1>4. ASSUME NEW c \in Captures, Claim(c) PROVE LockInv'
  BY <1>4 DEF CaptureTypeOK, LockInv, Claim, Goto, SetPhase
<1>5. ASSUME NEW c \in Captures, Attached(c) PROVE LockInv'
  BY <1>5 DEF CaptureTypeOK, LockInv, Attached, Goto, SetPhase
<1>6. ASSUME NEW c \in Captures, AttachRejected(c) PROVE LockInv'
  BY <1>6 DEF CaptureTypeOK, LockInv, AttachRejected, Goto, Release
<1>7. ASSUME NEW c \in Captures, CaptureUnanswered(c) PROVE LockInv'
  BY <1>7 DEF CaptureTypeOK, LockInv, CaptureUnanswered, Goto, Release
<1>8. ASSUME NEW c \in Captures, Status(c) PROVE LockInv'
  BY <1>8 DEF CaptureTypeOK, LockInv, Status
<1>9. ASSUME NEW c \in Captures, StatusAnswered(c) PROVE LockInv'
  BY <1>9 DEF CaptureTypeOK, LockInv, StatusAnswered, Release
<1>10. ASSUME NEW c \in Captures, BeginFinish(c) PROVE LockInv'
  BY <1>10 DEF CaptureTypeOK, LockInv, BeginFinish, SetPhase
<1>11. ASSUME NEW c \in Captures, FinishAnswered(c) PROVE LockInv'
  BY <1>11 DEF CaptureTypeOK, LockInv, FinishAnswered, LeaveSlot, Release
<1>12. ASSUME NEW c \in Captures, Converted(c) PROVE LockInv'
  BY <1>12 DEF CaptureTypeOK, LockInv, Converted, LeaveSlot, Release
<1>13. ASSUME NEW c \in Captures, FinishGivesUp(c) PROVE LockInv'
  BY <1>13 DEF CaptureTypeOK, LockInv, FinishGivesUp, LeaveSlot, Release
<1>14. ASSUME NEW c \in Captures, FinishRejected(c) PROVE LockInv'
  BY <1>14 DEF CaptureTypeOK, LockInv, FinishRejected, LeavePhase, SetPhase
<1>15. ASSUME NEW c \in Captures, FinishUnsent(c) PROVE LockInv'
  BY <1>15 DEF CaptureTypeOK, LockInv, FinishUnsent, LeavePhase, LeaveSlot, SetPhase, Release
<1>16. ASSUME NEW c \in Captures, FinishUnanswered(c) PROVE LockInv'
  BY <1>16 DEF CaptureTypeOK, LockInv, FinishUnanswered, LeavePhase, LeaveSlot, SetPhase, Release
<1>17. ASSUME NEW c \in Captures, FinishOrphan(c) PROVE LockInv'
  BY <1>17 DEF CaptureTypeOK, LockInv, FinishOrphan
<1>18. ASSUME NEW c \in Captures, StartTests(c) PROVE LockInv'
  BY <1>18 DEF CaptureTypeOK, LockInv, StartTests, SetPhase
<1>19. ASSUME NEW c \in Captures, TestsOver(c) PROVE LockInv'
  BY <1>19 DEF CaptureTypeOK, LockInv, TestsOver, SetPhase
<1>20. ASSUME NEW c \in Captures, ServerAttaches(c) PROVE LockInv'
  BY <1>20 DEF CaptureTypeOK, LockInv, ServerAttaches
<1>21. ASSUME NEW c \in Captures, ServerReports(c) PROVE LockInv'
  BY <1>21 DEF CaptureTypeOK, LockInv, ServerReports
<1>22. ASSUME NEW c \in Captures, ServerFinishes(c) PROVE LockInv'
  BY <1>22 DEF CaptureTypeOK, LockInv, ServerFinishes
<1>23. ASSUME NEW c \in Captures, DelayedFinish(c) PROVE LockInv'
  BY <1>23 DEF CaptureTypeOK, LockInv, DelayedFinish
<1>24. CASE OtherRunStarts
  BY <1>24 DEF CaptureTypeOK, LockInv, OtherRunStarts
<1>25. CASE OtherRunEnds
  BY <1>25 DEF CaptureTypeOK, LockInv, OtherRunEnds
<1>26. CASE ServerForgets
  BY <1>26 DEF CaptureTypeOK, LockInv, ServerForgets
<1> QED
  BY <1>1, <1>2, <1>3, <1>4, <1>5, <1>6, <1>7, <1>8, <1>9, <1>10, <1>11, <1>12, <1>13, <1>14, <1>15, <1>16, <1>17, <1>18, <1>19, <1>20, <1>21, <1>22, <1>23, <1>24, <1>25, <1>26 DEF CaptureNext, Proceed

\* Every step keeps every capture's start call and the slot in agreement.
LEMMA StartStep ==
  ASSUME CaptureInv, [CaptureNext]_captureVars, NEW d \in Captures
  PROVE  StartInv(d)'
<1> USE CapturesDisjoint DEF Request, client, captureVars
<1>1. CASE UNCHANGED captureVars
  BY <1>1 DEF CaptureInv, CaptureTypeOK, StartInv, UseInv
<1>2. ASSUME NEW c \in Captures, Prepare(c) PROVE StartInv(d)'
  BY <1>2 DEF CaptureInv, CaptureTypeOK, StartInv, UseInv, Prepare, Goto
<1>3. ASSUME NEW c \in Captures, Unprepared(c) PROVE StartInv(d)'
  BY <1>3 DEF CaptureInv, CaptureTypeOK, StartInv, UseInv, Unprepared, Goto
<1>4. ASSUME NEW c \in Captures, Claim(c) PROVE StartInv(d)'
  BY <1>4 DEF CaptureInv, CaptureTypeOK, StartInv, UseInv, Claim, Goto, SetPhase
<1>5. ASSUME NEW c \in Captures, Attached(c) PROVE StartInv(d)'
  BY <1>5 DEF CaptureInv, CaptureTypeOK, StartInv, UseInv, Attached, Goto, SetPhase
<1>6. ASSUME NEW c \in Captures, AttachRejected(c) PROVE StartInv(d)'
  BY <1>6 DEF CaptureInv, CaptureTypeOK, StartInv, UseInv, AttachRejected, Goto, Release
<1>7. ASSUME NEW c \in Captures, CaptureUnanswered(c) PROVE StartInv(d)'
  BY <1>7 DEF CaptureInv, CaptureTypeOK, StartInv, UseInv, CaptureUnanswered, Goto, Release
<1>8. ASSUME NEW c \in Captures, Status(c) PROVE StartInv(d)'
  BY <1>8 DEF CaptureInv, CaptureTypeOK, StartInv, UseInv, Status
<1>9. ASSUME NEW c \in Captures, StatusAnswered(c) PROVE StartInv(d)'
  BY <1>9 DEF CaptureInv, CaptureTypeOK, StartInv, UseInv, StatusAnswered, Release
<1>10. ASSUME NEW c \in Captures, BeginFinish(c) PROVE StartInv(d)'
  BY <1>10 DEF CaptureInv, CaptureTypeOK, StartInv, UseInv, BeginFinish, SetPhase
<1>11. ASSUME NEW c \in Captures, FinishAnswered(c) PROVE StartInv(d)'
  BY <1>11 DEF CaptureInv, CaptureTypeOK, StartInv, UseInv, FinishAnswered, LeaveSlot, Release
<1>12. ASSUME NEW c \in Captures, Converted(c) PROVE StartInv(d)'
  BY <1>12 DEF CaptureInv, CaptureTypeOK, StartInv, UseInv, Converted, LeaveSlot, Release
<1>13. ASSUME NEW c \in Captures, FinishGivesUp(c) PROVE StartInv(d)'
  BY <1>13 DEF CaptureInv, CaptureTypeOK, StartInv, UseInv, FinishGivesUp, LeaveSlot, Release
<1>14. ASSUME NEW c \in Captures, FinishRejected(c) PROVE StartInv(d)'
  BY <1>14 DEF CaptureInv, CaptureTypeOK, StartInv, UseInv, FinishRejected, LeavePhase, SetPhase
<1>15. ASSUME NEW c \in Captures, FinishUnsent(c) PROVE StartInv(d)'
  BY <1>15 DEF CaptureInv, CaptureTypeOK, StartInv, UseInv, FinishUnsent, LeavePhase, LeaveSlot, SetPhase, Release
<1>16. ASSUME NEW c \in Captures, FinishUnanswered(c) PROVE StartInv(d)'
  BY <1>16 DEF CaptureInv, CaptureTypeOK, StartInv, UseInv, FinishUnanswered, LeavePhase, LeaveSlot, SetPhase, Release
<1>17. ASSUME NEW c \in Captures, FinishOrphan(c) PROVE StartInv(d)'
  BY <1>17 DEF CaptureInv, CaptureTypeOK, StartInv, UseInv, FinishOrphan
<1>18. ASSUME NEW c \in Captures, StartTests(c) PROVE StartInv(d)'
  BY <1>18 DEF CaptureInv, CaptureTypeOK, StartInv, UseInv, StartTests, SetPhase
<1>19. ASSUME NEW c \in Captures, TestsOver(c) PROVE StartInv(d)'
  BY <1>19 DEF CaptureInv, CaptureTypeOK, StartInv, UseInv, TestsOver, SetPhase
<1>20. ASSUME NEW c \in Captures, ServerAttaches(c) PROVE StartInv(d)'
  BY <1>20 DEF CaptureInv, CaptureTypeOK, StartInv, UseInv, ServerAttaches
<1>21. ASSUME NEW c \in Captures, ServerReports(c) PROVE StartInv(d)'
  BY <1>21 DEF CaptureInv, CaptureTypeOK, StartInv, UseInv, ServerReports
<1>22. ASSUME NEW c \in Captures, ServerFinishes(c) PROVE StartInv(d)'
  BY <1>22 DEF CaptureInv, CaptureTypeOK, StartInv, UseInv, ServerFinishes
<1>23. ASSUME NEW c \in Captures, DelayedFinish(c) PROVE StartInv(d)'
  BY <1>23 DEF CaptureInv, CaptureTypeOK, StartInv, UseInv, DelayedFinish
<1>24. CASE OtherRunStarts
  BY <1>24 DEF CaptureInv, CaptureTypeOK, StartInv, UseInv, OtherRunStarts
<1>25. CASE OtherRunEnds
  BY <1>25 DEF CaptureInv, CaptureTypeOK, StartInv, UseInv, OtherRunEnds
<1>26. CASE ServerForgets
  BY <1>26 DEF CaptureInv, CaptureTypeOK, StartInv, UseInv, ServerForgets
<1> QED
  BY <1>1, <1>2, <1>3, <1>4, <1>5, <1>6, <1>7, <1>8, <1>9, <1>10, <1>11, <1>12, <1>13, <1>14, <1>15, <1>16, <1>17, <1>18, <1>19, <1>20, <1>21, <1>22, <1>23, <1>24, <1>25, <1>26 DEF CaptureNext, Proceed

\* Every step keeps every capture's phase and the calls that use it in agreement.
LEMMA UseStep ==
  ASSUME CaptureInv, [CaptureNext]_captureVars, NEW d \in Captures
  PROVE  UseInv(d)'
<1> USE CapturesDisjoint DEF Request, client, captureVars
<1>1. CASE UNCHANGED captureVars
  BY <1>1 DEF CaptureInv, CaptureTypeOK, StartInv, UseInv
<1>2. ASSUME NEW c \in Captures, Prepare(c) PROVE UseInv(d)'
  BY <1>2 DEF CaptureInv, CaptureTypeOK, StartInv, UseInv, Prepare, Goto
<1>3. ASSUME NEW c \in Captures, Unprepared(c) PROVE UseInv(d)'
  BY <1>3 DEF CaptureInv, CaptureTypeOK, StartInv, UseInv, Unprepared, Goto
<1>4. ASSUME NEW c \in Captures, Claim(c) PROVE UseInv(d)'
  BY <1>4 DEF CaptureInv, CaptureTypeOK, StartInv, UseInv, Claim, Goto, SetPhase
<1>5. ASSUME NEW c \in Captures, Attached(c) PROVE UseInv(d)'
  BY <1>5 DEF CaptureInv, CaptureTypeOK, StartInv, UseInv, Attached, Goto, SetPhase
<1>6. ASSUME NEW c \in Captures, AttachRejected(c) PROVE UseInv(d)'
  BY <1>6 DEF CaptureInv, CaptureTypeOK, StartInv, UseInv, AttachRejected, Goto, Release
<1>7. ASSUME NEW c \in Captures, CaptureUnanswered(c) PROVE UseInv(d)'
  BY <1>7 DEF CaptureInv, CaptureTypeOK, StartInv, UseInv, CaptureUnanswered, Goto, Release
<1>8. ASSUME NEW c \in Captures, Status(c) PROVE UseInv(d)'
  BY <1>8 DEF CaptureInv, CaptureTypeOK, StartInv, UseInv, Status
<1>9. ASSUME NEW c \in Captures, StatusAnswered(c) PROVE UseInv(d)'
  BY <1>9 DEF CaptureInv, CaptureTypeOK, StartInv, UseInv, StatusAnswered, Release
<1>10. ASSUME NEW c \in Captures, BeginFinish(c) PROVE UseInv(d)'
  BY <1>10 DEF CaptureInv, CaptureTypeOK, StartInv, UseInv, BeginFinish, SetPhase
<1>11. ASSUME NEW c \in Captures, FinishAnswered(c) PROVE UseInv(d)'
  BY <1>11 DEF CaptureInv, CaptureTypeOK, StartInv, UseInv, FinishAnswered, LeaveSlot, Release
<1>12. ASSUME NEW c \in Captures, Converted(c) PROVE UseInv(d)'
  BY <1>12 DEF CaptureInv, CaptureTypeOK, StartInv, UseInv, Converted, LeaveSlot, Release
<1>13. ASSUME NEW c \in Captures, FinishGivesUp(c) PROVE UseInv(d)'
  BY <1>13 DEF CaptureInv, CaptureTypeOK, StartInv, UseInv, FinishGivesUp, LeaveSlot, Release
<1>14. ASSUME NEW c \in Captures, FinishRejected(c) PROVE UseInv(d)'
  BY <1>14 DEF CaptureInv, CaptureTypeOK, StartInv, UseInv, FinishRejected, LeavePhase, SetPhase
<1>15. ASSUME NEW c \in Captures, FinishUnsent(c) PROVE UseInv(d)'
  BY <1>15 DEF CaptureInv, CaptureTypeOK, StartInv, UseInv, FinishUnsent, LeavePhase, LeaveSlot, SetPhase, Release
<1>16. ASSUME NEW c \in Captures, FinishUnanswered(c) PROVE UseInv(d)'
  BY <1>16 DEF CaptureInv, CaptureTypeOK, StartInv, UseInv, FinishUnanswered, LeavePhase, LeaveSlot, SetPhase, Release
<1>17. ASSUME NEW c \in Captures, FinishOrphan(c) PROVE UseInv(d)'
  BY <1>17 DEF CaptureInv, CaptureTypeOK, StartInv, UseInv, FinishOrphan
<1>18. ASSUME NEW c \in Captures, StartTests(c) PROVE UseInv(d)'
  BY <1>18 DEF CaptureInv, CaptureTypeOK, StartInv, UseInv, StartTests, SetPhase
<1>19. ASSUME NEW c \in Captures, TestsOver(c) PROVE UseInv(d)'
  BY <1>19 DEF CaptureInv, CaptureTypeOK, StartInv, UseInv, TestsOver, SetPhase
<1>20. ASSUME NEW c \in Captures, ServerAttaches(c) PROVE UseInv(d)'
  BY <1>20 DEF CaptureInv, CaptureTypeOK, StartInv, UseInv, ServerAttaches
<1>21. ASSUME NEW c \in Captures, ServerReports(c) PROVE UseInv(d)'
  BY <1>21 DEF CaptureInv, CaptureTypeOK, StartInv, UseInv, ServerReports
<1>22. ASSUME NEW c \in Captures, ServerFinishes(c) PROVE UseInv(d)'
  BY <1>22 DEF CaptureInv, CaptureTypeOK, StartInv, UseInv, ServerFinishes
<1>23. ASSUME NEW c \in Captures, DelayedFinish(c) PROVE UseInv(d)'
  BY <1>23 DEF CaptureInv, CaptureTypeOK, StartInv, UseInv, DelayedFinish
<1>24. CASE OtherRunStarts
  BY <1>24 DEF CaptureInv, CaptureTypeOK, StartInv, UseInv, OtherRunStarts
<1>25. CASE OtherRunEnds
  BY <1>25 DEF CaptureInv, CaptureTypeOK, StartInv, UseInv, OtherRunEnds
<1>26. CASE ServerForgets
  BY <1>26 DEF CaptureInv, CaptureTypeOK, StartInv, UseInv, ServerForgets
<1> QED
  BY <1>1, <1>2, <1>3, <1>4, <1>5, <1>6, <1>7, <1>8, <1>9, <1>10, <1>11, <1>12, <1>13, <1>14, <1>15, <1>16, <1>17, <1>18, <1>19, <1>20, <1>21, <1>22, <1>23, <1>24, <1>25, <1>26 DEF CaptureNext, Proceed

LEMMA CaptureInitially == CaptureInit => CaptureInv
<1> SUFFICES ASSUME CaptureInit PROVE CaptureInv
  OBVIOUS
<1>1. CaptureTypeOK
  BY DEF CaptureInit, CaptureTypeOK, Request
<1>2. LockInv
  BY DEF CaptureInit, LockInv
<1>3. ASSUME NEW c \in Captures PROVE StartInv(c) /\ UseInv(c)
  BY CapturesDisjoint DEF CaptureInit, StartInv, UseInv
<1> QED
  BY <1>1, <1>2, <1>3 DEF CaptureInv

LEMMA CaptureInvariance == CaptureSpec => []CaptureInv
<1>1. CaptureInv /\ [CaptureNext]_captureVars => CaptureInv'
  BY TypeStep, LockStep, StartStep, UseStep DEF CaptureInv
<1> QED
  BY <1>1, CaptureInitially, PTL DEF CaptureSpec

\* Every variable stays in its type.
THEOREM TypeCorrect == CaptureSpec => []CaptureTypeOK
<1>1. CaptureInv => CaptureTypeOK
  BY DEF CaptureInv
<1> QED
  BY <1>1, CaptureInvariance, PTL

\* Whatever overlaps, is refused, lost or answered late: a phase that refuses other calls belongs to
\* one call in progress, the test-run lock is held by the one run there is, and a capture the tenant
\* holds is in the slot or known to the agent.
THEOREM SlotHonest == CaptureSpec => []PhaseHonest
<1>1. CaptureInv => PhaseHasOwner
  BY DEF CaptureInv, CaptureTypeOK, StartInv, UseInv, PhaseHasOwner
<1>2. CaptureInv => TestLockExact
  <2>1. ASSUME CaptureInv, tests # {} PROVE Cardinality(tests) = 1
    <3>1. PICK c \in tests : tests = {c}
      BY <2>1 DEF CaptureInv, LockInv
    <3> QED
      BY <3>1, FS_Singleton
  <2> QED
    BY <2>1, FS_EmptySet DEF CaptureInv, LockInv, TestLockExact
<1>3. CaptureInv => HeldCaptureKeepsSlot
  BY CapturesDisjoint DEF CaptureInv, CaptureTypeOK, UseInv, HeldCaptureKeepsSlot
<1>4. CaptureInv => OrphanIsRecoverable
  BY CapturesDisjoint DEF CaptureInv, CaptureTypeOK, StartInv, OrphanIsRecoverable, Captures
<1>5. CaptureInv => PhaseHonest
  BY <1>1, <1>2, <1>3, <1>4 DEF CaptureInv, PhaseHonest, NothingStranded
<1> QED
  BY <1>5, CaptureInvariance, PTL

----------------------------------------------------------------------------
(* The record-write collector *)

----------------------------------------------------------------------------
(* Messages, and what is among the elements of a sequence *)

Breaks == {[kind |-> "break"]}
Detaches == {[kind |-> "detached"]}
Fatals == {[kind |-> "fatal"]}
Answers(who, answers) == {Completes(who, answer) : answer \in answers}
Either == {"ok", "busy", "error"}

Message == Breaks \cup Detaches \cup Fatals \cup UNION {Answers(who, Either) : who \in {"H", "F", "R"}}

Asks(who) == {[who |-> who, step |-> step] : step \in {"continue", "release"}}
Invocation == Asks("H") \cup {[who |-> "F", step |-> "release"]}

Event == {"bound", "break", "detached", "fatal"}

In(s, A) == \E i \in 1..Len(s) : s[i] \in A
\* None of B comes after one of A.
Never(s, A, B) == \A i, j \in 1..Len(s) : s[i] \in A /\ s[j] \in B => ~(i < j)

LEMMA Nothing == \A A, B : ~In(<<>>, A) /\ Never(<<>>, A, B)
BY DEF In, Never

LEMMA Sent ==
  ASSUME NEW T, NEW s \in Seq(T), NEW m \in T
  PROVE  /\ Append(s, m) \in Seq(T)
         /\ \A A : In(Append(s, m), A) <=> In(s, A) \/ m \in A
         /\ \A A, B : Never(s, A, B) /\ (m \in B => ~In(s, A)) => Never(Append(s, m), A, B)
<1>1. /\ Len(s) \in Nat /\ Len(Append(s, m)) = Len(s) + 1 /\ Append(s, m)[Len(s) + 1] = m
      /\ \A i \in 1..Len(s) : Append(s, m)[i] = s[i]
  BY AppendProperties
<1>2. \A A : In(Append(s, m), A) <=> In(s, A) \/ m \in A
  BY <1>1 DEF In
<1>3. \A A, B : Never(s, A, B) /\ (m \in B => ~In(s, A)) => Never(Append(s, m), A, B)
  <2> SUFFICES ASSUME NEW A, NEW B, Never(s, A, B), m \in B => ~In(s, A),
                      NEW i \in 1..Len(Append(s, m)), NEW j \in 1..Len(Append(s, m)),
                      Append(s, m)[i] \in A, Append(s, m)[j] \in B, i < j
               PROVE  FALSE
    BY DEF Never
  <2>1. i \in 1..Len(s) /\ s[i] \in A
    BY <1>1
  <2>2. CASE j \in 1..Len(s)
    BY <1>1, <2>1, <2>2 DEF Never
  <2>3. CASE j = Len(s) + 1
    BY <1>1, <2>1, <2>3 DEF In
  <2> QED
    BY <1>1, <2>2, <2>3
<1> QED
  BY <1>2, <1>3

LEMMA Taken ==
  ASSUME NEW T, NEW s \in Seq(T), s # <<>>
  PROVE  /\ Head(s) \in T /\ Tail(s) \in Seq(T)
         /\ \A A : /\ In(s, A) <=> Head(s) \in A \/ In(Tail(s), A)
         /\ \A A, B : Never(s, A, B) => Never(Tail(s), A, B) /\ (Head(s) \in A => ~In(Tail(s), B))
<1>1. /\ Len(s) \in Nat /\ Len(s) >= 1 /\ Len(Tail(s)) = Len(s) - 1 /\ s[1] = Head(s)
      /\ \A i \in 1..Len(Tail(s)) : i + 1 \in 1..Len(s) /\ Tail(s)[i] = s[i + 1]
  BY HeadTailProperties
<1>2. \A i \in 1..Len(s) : i # 1 => i - 1 \in 1..Len(Tail(s)) /\ Tail(s)[i - 1] = s[i]
  <2> SUFFICES ASSUME NEW i \in 1..Len(s), i # 1 PROVE i - 1 \in 1..Len(Tail(s)) /\ Tail(s)[i - 1] = s[i]
    OBVIOUS
  <2>1. i - 1 \in 1..Len(Tail(s)) /\ (i - 1) + 1 = i
    BY <1>1
  <2> QED
    BY <1>1, <2>1
<1>3. \A A : In(s, A) <=> Head(s) \in A \/ In(Tail(s), A)
  <2> SUFFICES ASSUME NEW A PROVE In(s, A) <=> Head(s) \in A \/ In(Tail(s), A)
    OBVIOUS
  <2>1. In(s, A) => Head(s) \in A \/ In(Tail(s), A)
    BY <1>1, <1>2 DEF In
  <2>2. Head(s) \in A \/ In(Tail(s), A) => In(s, A)
    BY <1>1 DEF In
  <2> QED
    BY <2>1, <2>2
<1>4. \A A, B : Never(s, A, B) => Never(Tail(s), A, B) /\ (Head(s) \in A => ~In(Tail(s), B))
  <2> SUFFICES ASSUME NEW A, NEW B, Never(s, A, B)
               PROVE  Never(Tail(s), A, B) /\ (Head(s) \in A => ~In(Tail(s), B))
    OBVIOUS
  <2>1. Never(Tail(s), A, B)
    <3> SUFFICES ASSUME NEW i \in 1..Len(Tail(s)), NEW j \in 1..Len(Tail(s)), Tail(s)[i] \in A, Tail(s)[j] \in B, i < j
                 PROVE  FALSE
      BY DEF Never
    <3>1. i + 1 \in 1..Len(s) /\ j + 1 \in 1..Len(s) /\ s[i + 1] \in A /\ s[j + 1] \in B /\ i + 1 < j + 1
      BY <1>1
    <3> QED
      BY <3>1 DEF Never
  <2>2. ASSUME Head(s) \in A, NEW j \in 1..Len(Tail(s)), Tail(s)[j] \in B PROVE FALSE
    <3>1. 1 \in 1..Len(s) /\ j + 1 \in 1..Len(s) /\ s[1] \in A /\ s[j + 1] \in B /\ 1 < j + 1
      BY <1>1, <2>2
    <3> QED
      BY <3>1 DEF Never
  <2> QED
    BY <2>1, <2>2 DEF In
<1>5. Head(s) \in T /\ Tail(s) \in Seq(T)
  BY <1>1, HeadTailProperties
<1> QED
  BY <1>3, <1>4, <1>5

\* What a message is among.
LEMMA Kinds ==
  /\ [kind |-> "break"] \in Breaks /\ [kind |-> "detached"] \in Detaches
  /\ \A m \in Breaks : m.kind = "break" /\ m \in Message /\ m \notin Detaches /\ m \notin Fatals
  /\ \A m \in Detaches : m.kind = "detached" /\ m \in Message /\ m \notin Breaks /\ m \notin Fatals
  /\ \A m \in Fatals : m.kind = "fatal" /\ m \in Message /\ m \notin Breaks /\ m \notin Detaches
  /\ [kind |-> "fatal"] \in Fatals
  /\ \A m \in Breaks \cup Detaches \cup Fatals : \A who, answers : m \notin Answers(who, answers)
<1>1. \A m \in Breaks : m.kind = "break"
  BY DEF Breaks
<1>2. \A m \in Detaches : m.kind = "detached"
  BY DEF Detaches
<1>3. \A m \in Fatals : m.kind = "fatal"
  BY DEF Fatals
<1>4. \A who, answers : \A m \in Answers(who, answers) : m.kind = "completion"
  BY DEF Answers, Completes
<1>5. [kind |-> "break"] \in Breaks /\ [kind |-> "detached"] \in Detaches /\ [kind |-> "fatal"] \in Fatals
  BY DEF Breaks, Detaches, Fatals
<1>6. \A m \in Breaks \cup Detaches \cup Fatals : m \in Message
  BY DEF Message
<1> QED
  BY <1>1, <1>2, <1>3, <1>4, <1>5, <1>6

LEMMA Completed ==
  /\ \A who \in {"H", "F", "R"}, answer \in Either : /\ Completes(who, answer) \in Message
       /\ Completes(who, answer) \notin Breaks \cup Detaches \cup Fatals
       /\ \A v, answers : Completes(who, answer) \in Answers(v, answers) <=> v = who /\ answer \in answers
  /\ \A m \in Message : m.kind = "completion" =>
       /\ m.who \in {"H", "F", "R"} /\ m.answer \in Either /\ m = Completes(m.who, m.answer)
<1>1. \A who \in {"H", "F", "R"}, answer \in Either : Completes(who, answer) \in Message
  BY DEF Message, Answers
<1>2. \A who, answer : /\ Completes(who, answer).kind = "completion" /\ Completes(who, answer).who = who
                       /\ Completes(who, answer).answer = answer
  BY DEF Completes
<1>3. \A who, answer : Completes(who, answer) \notin Breaks \cup Detaches \cup Fatals
  BY <1>2 DEF Breaks, Detaches, Fatals
<1>4. \A who, answer, v, answers : Completes(who, answer) \in Answers(v, answers) <=> v = who /\ answer \in answers
  BY <1>2 DEF Answers
<1>5. ASSUME NEW m \in Message, m.kind = "completion"
      PROVE  m.who \in {"H", "F", "R"} /\ m.answer \in Either /\ m = Completes(m.who, m.answer)
  <2>1. m \notin Breaks \cup Detaches \cup Fatals
    BY <1>5 DEF Breaks, Detaches, Fatals
  <2>2. PICK who \in {"H", "F", "R"} : m \in Answers(who, Either)
    BY <2>1 DEF Message
  <2>3. PICK answer \in Either : m = Completes(who, answer)
    BY <2>2 DEF Answers
  <2> QED
    BY <1>2, <2>3
<1> QED
  BY <1>1, <1>3, <1>4, <1>5

----------------------------------------------------------------------------
(* The inductive invariant *)

\* A break, and a detach, that the collector has not taken up.
Broken == In(queue, {"break"}) \/ In(wire, Breaks)
Ended == In(queue, {"detached"}) \/ In(wire, Detaches)
\* The handler of a break asks for a step, or its step was refused.
Refused == reply["H"] = "error" \/ In(wire, Answers("H", {"error"}))
\* It has the workload, or has asked in vain to let it go.
Held == h \in {"classifying", "awaitShutdown"} \/ In(inv, Asks("H")) \/ (h = "releasing" /\ Refused /\ link = "up")
\* finish()'s release let the workload go.
Released == shutdownRelease = "true" \/ reply["F"] = "ok" \/ In(wire, Answers("F", {"ok"}))

Typed == TriageTypeOK /\ wire \in Seq(Message) /\ inv \in Seq(Invocation)

\* The end of a capture, the generations, and finish().
EndInv ==
  /\ accepting <=> stopReason = "null"
  /\ phaseValue = "failed" => stopReason # "null"
  /\ finishing <=> f # "no"
  /\ h = "stopping" => Terminal /\ ~hub
  /\ h = "failReleasing" => phaseValue = "failed"
  /\ f \in {"stopping", "done"} => ~hub /\ h = "idle" /\ queue = <<>> /\ Terminal
  /\ link = "down" => registration = "none" /\ wire = <<>> /\ inv = <<>>

ArmsInv ==
  /\ strays = MaxRearms + 1 => Terminal
  /\ \A g \in Generations : /\ g > strays => task[g] = "none"
                            /\ task[g] = "none" => tries[g] = 0
                            /\ g = strays /\ task[g] # "over" => rearms < strays
  /\ h = "strayStopping" => ~Terminal /\ ~hub /\ phaseValue = "rearming" /\ \A g \in Generations : g = strays => task[g] = "none"

\* Every break is counted once, and its handler has the pause.
CountInv ==
  /\ observed = exact + unresolved + (IF h = "classifying" THEN 1 ELSE 0)
  /\ ~Terminal /\ h # "classifying" => observed < MaxObserved
  /\ paused => h \in {"classifying", "releasing", "awaitShutdown", "failReleasing"}
  /\ paused /\ phaseValue = "failed" => h = "failReleasing"

\* An invocation is answered once, to whoever waits for it.
CallInv ==
  /\ In(inv, Asks("H")) \/ In(wire, Answers("H", Either)) => h \in {"releasing", "failReleasing"} /\ reply["H"] = "pending"
  /\ ~(In(inv, Asks("H")) /\ In(wire, Answers("H", Either)))
  /\ In(inv, Asks("F")) \/ In(wire, Answers("F", Either)) => shutdownRelease = "pending" /\ reply["F"] = "pending"
  /\ ~(In(inv, Asks("F")) /\ In(wire, Answers("F", Either)))
  /\ Never(inv, Asks("H"), Asks("H")) /\ Never(inv, Asks("F"), Asks("F"))
  /\ \A who \in {"H", "F", "R"} : Never(wire, Answers(who, Either), Answers(who, Either))
  /\ In(wire, Answers("R", {"busy"})) => reply["R"] = "pending"
  /\ f \in {"no", "awaitRearm"} <=> shutdownRelease = "null"
  /\ f = "releasing" <=> shutdownRelease = "pending"
  /\ shutdownRelease = "null" => reply["F"] = "none"
  /\ shutdownRelease = "false" => reply["F"] \in {"none", "error"}

\* The workload stands still from its write until it is continued, and one break is under way at most.
BreakInv ==
  /\ registration = "none" => workload = "none"
  /\ registration = "armed" => workload = "none" /\ ~Broken /\ ~Held
  /\ Broken => workload # "running" /\ ~Held
  /\ Held => workload # "running"
  /\ Never(wire, Breaks, Breaks) /\ Never(queue, {"break"}, {"break"})
  /\ In(queue, {"break"}) => ~In(wire, Breaks)
  /\ Ended => registration = "none"
  /\ Never(wire, Detaches, Breaks) /\ Never(queue, {"detached"}, {"break"})
  /\ In(queue, {"detached"}) => ~In(wire, Breaks)

\* Between a stray and the registration of its re-attach nothing is observed, and nothing else can
\* happen to a re-attach that waits for its authorization than a call of finish().
RearmInv ==
  /\ \A g \in Generations : g = strays /\ task[g] = "waiting" /\ ~Terminal =>
       phaseValue = "rearming" /\ h = "idle" /\ link = "down"
  /\ \A g \in Generations : task[g] = "authorizing" =>
       /\ g = strays /\ ~Terminal /\ f \in {"no", "awaitRearm"}
       /\ h = "idle" /\ queue = <<>> /\ link = "down"
  /\ reply["R"] \in {"pending", "busy"} =>
       registration = "none" /\ ~Broken /\ ~Ended /\ h \in {"idle", "stopping"}

\* Without a fault, and short of the cap, no invocation is refused.
CalmInv ==
  /\ h \in {"classifying", "releasing", "awaitShutdown"} => hub
  /\ (Broken \/ registration # "none" \/ reply["R"] = "pending") /\ ~Terminal => hub
  /\ h = "classifying" => ~Terminal
  /\ h # "failReleasing"
  /\ h = "releasing" => ~Refused
  /\ In(inv, Asks("H")) => workload = "paused"
  /\ Never(inv, Asks("F"), Asks("H"))
  /\ (Broken \/ h \in {"classifying", "awaitShutdown"}) /\ ~Released => workload = "paused"
  /\ h = "stopping" => strays = MaxRearms + 1 /\ ~In(queue, {"break"})
  /\ \A g \in Generations : g = strays /\ task[g] = "attaching" /\ reply["R"] = "error" => Terminal /\ h = "idle" /\ queue = <<>>

FaultInv ==
  /\ In(wire, Fatals) \/ In(queue, {"fatal"}) => fault
  /\ In(wire, Answers("R", {"error"})) => fault
  /\ ~fault /\ ~truncated => CalmInv
  /\ FailsForAReason

\* How many writes finish() must have seen.
Due == IF f = "no" THEN writes ELSE window

\* As long as no evidence is lost, every write that is due was counted, but for one whose break is
\* under way and will be handled: before finish() drains, and before anything that could end the capture.
WatchedInv ==
  /\ strays = 0 /\ ~missed /\ ~truncated /\ phaseValue \notin {"failed", "rearming"}
  /\ Terminal => finishing
  /\ ~Terminal => (hub <=> link = "up")
  /\ Due <= observed + 1
  /\ Due > observed =>
       /\ ~Terminal /\ h \notin {"classifying", "awaitShutdown"}
       /\ In(queue, {"break"}) \/ (~In(queue, {"detached"}) /\ (In(wire, Breaks) \/ (In(queue, {"fatal"}) /\ link = "down")))
  /\ f # "no" /\ Due > observed /\ ~In(queue, {"break"}) /\ In(wire, Breaks) =>
       /\ reply["F"] \notin {"ok", "error"} /\ shutdownRelease \notin {"true", "false"}
       /\ Never(wire, Answers("F", Either), Breaks)

LossInv == ~evidenceLost => WatchedInv

TriageInv == Typed /\ EndInv /\ ArmsInv /\ CountInv /\ CallInv /\ BreakInv /\ RearmInv /\ FaultInv /\ LossInv

FlagsTyped ==
  /\ rearm \in BOOLEAN /\ sessionObserved \in BOOLEAN /\ breakInArm \in BOOLEAN /\ truncated \in BOOLEAN
  /\ accepting \in BOOLEAN /\ finishing \in BOOLEAN /\ paused \in BOOLEAN /\ evidenceLost \in BOOLEAN
  /\ hub \in BOOLEAN /\ lookup \in BOOLEAN /\ missed \in BOOLEAN /\ fault \in BOOLEAN

DataTyped ==
  /\ phaseValue \in {"arming", "collecting", "rearming", "stopped", "failed"}
  /\ strays \in Nat /\ strays <= MaxRearms + 1 /\ rearms \in Nat /\ rearms <= strays
  /\ observed \in Nat /\ observed <= MaxObserved
  /\ exact \in Nat /\ exact <= observed /\ unresolved \in Nat /\ unresolved <= observed
  /\ stopReason \in {"null", "finished", "maxObservedWrites", "sessionDetached", "strayBindsExhausted", "fatal"}
  /\ shutdownRelease \in {"null", "pending", "true", "false"}
  /\ queue \in Seq(Event)
  /\ h \in {"idle", "classifying", "releasing", "awaitShutdown", "strayStopping", "stopping", "failReleasing"}
  /\ f \in {"no", "awaitRearm", "releasing", "draining", "stopping", "done"}
  /\ task \in [Generations -> {"none", "waiting", "authorizing", "attaching", "over"}]
  /\ tries \in [Generations -> 0..MaxAttempts]
  /\ link \in {"up", "down"} /\ (hub => link = "up")
  /\ reply \in [{"H", "F", "R"} -> {"none", "pending", "registered", "ok", "busy", "error"}]
  /\ registration \in {"none", "armed", "bound"} /\ workload \in {"none", "running", "paused"}
  /\ writes \in Nat /\ writes <= MaxWrites /\ window \in Nat /\ window <= writes
  /\ wire \in Seq(Message) /\ inv \in Seq(Invocation)

LEMMA TypeSplit == (Typed <=> FlagsTyped /\ DataTyped) /\ (Typed' <=> FlagsTyped' /\ DataTyped')
<1>1. MaxRearms \in Nat /\ MaxObserved \in Nat /\ MaxWrites \in Nat
  BY TriageAssumption
<1>2. \A a, b : b \in Nat => (a \in 0..b <=> a \in Nat /\ a <= b)
  OBVIOUS
<1>3. MaxRearms + 1 \in Nat
  BY <1>1
<1>4. Typed <=> FlagsTyped /\ DataTyped
  <2>1. Typed => FlagsTyped
    BY Zenon DEF Typed, TriageTypeOK, FlagsTyped
  <2>2. Typed => DataTyped
    BY <1>1, <1>2, <1>3 DEF Typed, TriageTypeOK, DataTyped, Event
  <2>3. FlagsTyped /\ DataTyped => TriageTypeOK
    <3>1. FlagsTyped => {rearm, sessionObserved, breakInArm, truncated, accepting, finishing, paused, evidenceLost, hub,
                         lookup, missed, fault} \subseteq BOOLEAN
      BY Zenon DEF FlagsTyped
    <3> QED
      BY <1>1, <1>2, <1>3, <3>1 DEF TriageTypeOK, DataTyped, Event
  <2> QED
    BY <2>1, <2>2, <2>3 DEF Typed, DataTyped
<1>5. Typed' <=> FlagsTyped' /\ DataTyped'
  <2>1. Typed' => FlagsTyped'
    BY Zenon DEF Typed, TriageTypeOK, FlagsTyped
  <2>2. Typed' => DataTyped'
    BY <1>1, <1>2, <1>3 DEF Typed, TriageTypeOK, DataTyped, Event
  <2>3. FlagsTyped' /\ DataTyped' => TriageTypeOK'
    <3>1. FlagsTyped' => ({rearm, sessionObserved, breakInArm, truncated, accepting, finishing, paused, evidenceLost, hub,
                         lookup, missed, fault} \subseteq BOOLEAN)'
      BY Zenon DEF FlagsTyped
    <3> QED
      BY <1>1, <1>2, <1>3, <3>1 DEF TriageTypeOK, DataTyped, Event
  <2> QED
    BY <2>1, <2>2, <2>3 DEF Typed, DataTyped
<1> QED
  BY <1>4, <1>5

LEMMA TriageInitOK == TriageInit => TriageInv
<1> SUFFICES ASSUME TriageInit PROVE TriageInv
  OBVIOUS
<1>1. Typed
  <2>1. FlagsTyped
    BY DEF TriageInit, FlagsTyped
  <2>2. DataTyped
    BY TriageAssumption DEF TriageInit, DataTyped, Generations
  <2> QED
    BY <2>1, <2>2, TypeSplit
<1>2. EndInv /\ ArmsInv /\ CountInv
  BY TriageAssumption DEF TriageInit, EndInv, ArmsInv, CountInv, Terminal, Generations
<1>3. CallInv /\ BreakInv /\ RearmInv
  BY Nothing DEF TriageInit, CallInv, BreakInv, RearmInv, Broken, Ended, Held, Refused
<1>4. FaultInv
  BY Nothing DEF TriageInit, FaultInv, CalmInv, Broken, Refused, FailsForAReason, Generations
<1>5. LossInv
  BY Nothing, TriageAssumption DEF TriageInit, LossInv, WatchedInv, Due, Terminal
<1> QED
  BY <1>1, <1>2, <1>3, <1>4, <1>5 DEF TriageInv

\* One answer is one of them.
LEMMA AnAnswer == \A s, who : \A answer \in Either : In(s, Answers(who, {answer})) => In(s, Answers(who, Either))
<1>1. \A who : \A answer \in Either : Answers(who, {answer}) \subseteq Answers(who, Either)
  BY DEF Answers
<1> QED
  BY <1>1 DEF In

LEMMA NotAnswered ==
  ASSUME Typed, AttachUnanswered
  PROVE  link = "up" /\ ~In(wire, Answers("R", Either)) /\ ~In(wire, Answers("R", {"busy"}))
<1>1. \A i \in 1..Len(wire) : wire[i] \in ToSet(wire)
  BY DEF Typed, ToSet
<1>2. \A m \in Answers("R", Either) : m.kind = "completion" /\ m.who = "R"
  BY DEF Answers, Completes
<1>3. ~In(wire, Answers("R", Either))
  BY <1>1, <1>2 DEF AttachUnanswered, In
<1> QED
  BY <1>3, AnAnswer DEF AttachUnanswered, Either

LEMMA NoneBefore == \A s, A, B : ~In(s, A) => Never(s, A, B)
BY DEF In, Never

LEMMA SentTwice ==
  ASSUME NEW T, NEW s \in Seq(T), NEW m \in T, NEW n \in T
  PROVE  /\ s \o <<m, n>> \in Seq(T)
         /\ \A A : In(s \o <<m, n>>, A) <=> In(s, A) \/ m \in A \/ n \in A
         /\ \A A, B : Never(s, A, B) /\ (m \in B \/ n \in B => ~In(s, A)) /\ (n \in B => m \notin A) => Never(s \o <<m, n>>, A, B)
<1>1. s \o <<m, n>> = Append(Append(s, m), n)
  OBVIOUS
<1>2. /\ Append(s, m) \in Seq(T)
      /\ \A A : In(Append(s, m), A) <=> In(s, A) \/ m \in A
      /\ \A A, B : Never(s, A, B) /\ (m \in B => ~In(s, A)) => Never(Append(s, m), A, B)
  BY Sent
<1> DEFINE t == Append(s, m)
<1> HIDE DEF t
<1>3. t = Append(s, m)
  BY DEF t
<1>4. /\ Append(t, n) \in Seq(T)
      /\ \A A : In(Append(t, n), A) <=> In(t, A) \/ n \in A
      /\ \A A, B : Never(t, A, B) /\ (n \in B => ~In(t, A)) => Never(Append(t, n), A, B)
  <2>1. t \in Seq(T)
    BY <1>2, <1>3
  <2> QED
    BY <2>1, Sent
<1> QED
  BY <1>1, <1>2, <1>3, <1>4

\* What a request is among.
LEMMA Requests ==
  /\ \A step \in {"continue", "release"} : /\ [who |-> "H", step |-> step] \in Asks("H") /\ [who |-> "H", step |-> step] \notin Asks("F")
                                           /\ [who |-> "H", step |-> step] \in Invocation
  /\ [who |-> "F", step |-> "release"] \in Asks("F") /\ [who |-> "F", step |-> "release"] \in Invocation
  /\ [who |-> "F", step |-> "release"] \notin Asks("H")
  /\ \A r \in Invocation : \/ r.who = "H" /\ r \in Asks("H") /\ r \notin Asks("F")
                           \/ r.who = "F" /\ r.step = "release" /\ r \in Asks("F") /\ r \notin Asks("H")
<1>1. \A who : \A r \in Asks(who) : r.who = who
  BY DEF Asks
<1>2. [who |-> "F", step |-> "release"] \in Asks("F") /\ [who |-> "F", step |-> "release"].who = "F"
  BY DEF Asks
<1>3. \A step \in {"continue", "release"} : /\ [who |-> "H", step |-> step] \in Asks("H")
                                            /\ [who |-> "H", step |-> step] \in Invocation
  BY DEF Asks, Invocation
<1> QED
  BY <1>1, <1>2, <1>3 DEF Invocation

\* The kind of a message says what it is among.
LEMMA KindOf ==
  ASSUME NEW m \in Message
  PROVE  /\ m.kind = "break" <=> m \in Breaks
         /\ m.kind = "detached" <=> m \in Detaches
         /\ m.kind = "fatal" <=> m \in Fatals
         /\ m.kind \in {"break", "detached", "fatal"} => \A who, answers : m \notin Answers(who, answers)
<1>1. \A who : \A n \in Answers(who, Either) : n.kind = "completion"
  BY DEF Answers, Completes
<1>2. m \in Breaks \cup Detaches \cup Fatals \/ m.kind = "completion"
  BY <1>1 DEF Message
<1>3. \A who, answers : m \in Answers(who, answers) => m.kind = "completion"
  BY DEF Answers, Completes
<1> QED
  BY <1>2, <1>3, Kinds

----------------------------------------------------------------------------
(* The three answers of the server to a step *)

ServerContinues ==
  /\ inv # <<>> /\ inv' = Tail(inv) /\ Head(inv).step = "continue" /\ workload = "paused"
  /\ workload' = "running"
  /\ wire' = Append(wire, Completes(Head(inv).who, "ok"))
  /\ ServerRest /\ UNCHANGED <<reply, lookup, registration, seen>>

ServerReleases ==
  /\ inv # <<>> /\ inv' = Tail(inv) /\ Head(inv).step = "release" /\ workload # "none"
  /\ workload' = "none" /\ registration' = "none"
  /\ wire' = wire \o <<[kind |-> "detached"], Completes(Head(inv).who, "ok")>>
  /\ ServerRest /\ UNCHANGED <<reply, lookup, seen>>

ServerRefuses ==
  /\ inv # <<>> /\ inv' = Tail(inv)
  /\ wire' = Append(wire, Completes(Head(inv).who, "error"))
  /\ fault' = (fault \/ workload = "paused")
  /\ ServerRest /\ UNCHANGED <<reply, lookup, server, writes, missed>>

LEMMA ServerAnswers == ServerSteps => ServerContinues \/ ServerReleases \/ ServerRefuses
BY DEF ServerSteps, ServerContinues, ServerReleases, ServerRefuses, seen

----------------------------------------------------------------------------
(* Business Central *)

\* The debugger is armed: nothing of an earlier arm is under way (RearmInv).
LEMMA ServerRegistersKept ==
  ASSUME TriageInv, ServerRegisters
  PROVE  TriageInv'
<1>0. Typed /\ FlagsTyped /\ DataTyped /\ EndInv /\ ArmsInv /\ CountInv /\ CallInv /\ BreakInv /\ RearmInv /\ FaultInv /\ LossInv
  BY TypeSplit DEF TriageInv
<1>1. /\ ~In(wire, Answers("R", {"busy"}))
      /\ link = "up" /\ reply["R"] = "pending"
      /\ registration' = "armed"
      /\ reply' = [reply EXCEPT !["R"] = "registered"]
      /\ UNCHANGED <<rearm, accepting, phaseValue, stopReason, evidenceLost, observed, exact, unresolved,
         truncated, sessionObserved, breakInArm, strays, rearms, finishing, shutdownRelease, f,
         window, paused, queue, h, task, tries, hub, inv, wire, lookup, link, workload, writes,
         missed, fault>>
  BY <1>0, NotAnswered DEF ServerRegisters, verdict, counts, session, shutdown, reattach, calls, server,
     seen, Collector, ServerRest
<1>3. Typed'
  <2>1. FlagsTyped'
    BY <1>0, <1>1 DEF FlagsTyped
  <2>2. DataTyped'
    BY <1>0, <1>1 DEF DataTyped
  <2> QED
    BY <2>1, <2>2, TypeSplit
<1>4. EndInv'
  BY <1>0, <1>1 DEF EndInv, Terminal, FlagsTyped, DataTyped
<1>5. ArmsInv'
  BY <1>0, <1>1 DEF ArmsInv, Terminal, FlagsTyped, DataTyped
<1>6. CountInv'
  BY <1>0, <1>1 DEF CountInv, Terminal, FlagsTyped, DataTyped
<1>7. CallInv'
  BY <1>0, <1>1 DEF CallInv, FlagsTyped, DataTyped
<1>8. BreakInv'
  BY <1>0, <1>1 DEF BreakInv, Broken, Ended, Held, Refused, FlagsTyped, DataTyped, RearmInv, CallInv
<1>9. RearmInv'
  BY <1>0, <1>1 DEF RearmInv, Broken, Ended, Terminal, FlagsTyped, DataTyped
<1>10. FaultInv'
  BY <1>0, <1>1 DEF FaultInv, CalmInv, Broken, Refused, Released, Terminal, FailsForAReason, FlagsTyped,
     DataTyped
<1>11. LossInv'
  BY <1>0, <1>1 DEF LossInv, WatchedInv, Due, Terminal, FlagsTyped, DataTyped
<1> QED
  BY <1>3, <1>4, <1>5, <1>6, <1>7, <1>8, <1>9, <1>10, <1>11 DEF TriageInv

LEMMA BindKept ==
  ASSUME TriageInv, Bind
  PROVE  TriageInv'
<1>0. Typed /\ FlagsTyped /\ DataTyped /\ EndInv /\ ArmsInv /\ CountInv /\ CallInv /\ BreakInv /\ RearmInv /\ FaultInv /\ LossInv
  BY TypeSplit DEF TriageInv
<1>1. /\ link = "up" /\ registration = "armed"
      /\ registration' = "bound" /\ workload' = "running" /\ lookup' = TRUE
      /\ UNCHANGED <<rearm, accepting, phaseValue, stopReason, evidenceLost, observed, exact, unresolved,
         truncated, sessionObserved, breakInArm, strays, rearms, finishing, shutdownRelease, f,
         window, paused, queue, h, task, tries, hub, reply, inv, wire, link, writes, missed, fault>>
  BY <1>0 DEF Bind, verdict, counts, session, shutdown, reattach, calls, server, seen, Collector, ServerRest
<1>3. Typed'
  <2>1. FlagsTyped'
    BY <1>0, <1>1 DEF FlagsTyped
  <2>2. DataTyped'
    BY <1>0, <1>1 DEF DataTyped
  <2> QED
    BY <2>1, <2>2, TypeSplit
<1>4. EndInv'
  BY <1>0, <1>1 DEF EndInv, Terminal, FlagsTyped, DataTyped
<1>5. ArmsInv'
  BY <1>0, <1>1 DEF ArmsInv, Terminal, FlagsTyped, DataTyped
<1>6. CountInv'
  BY <1>0, <1>1 DEF CountInv, Terminal, FlagsTyped, DataTyped
<1>7. CallInv'
  BY <1>0, <1>1 DEF CallInv, FlagsTyped, DataTyped
<1>8. BreakInv'
  BY <1>0, <1>1 DEF BreakInv, Broken, Ended, Held, Refused, FlagsTyped, DataTyped
<1>9. RearmInv'
  BY <1>0, <1>1 DEF RearmInv, Broken, Ended, Terminal, FlagsTyped, DataTyped
<1>10. FaultInv'
  BY <1>0, <1>1 DEF FaultInv, CalmInv, Broken, Refused, Released, Terminal, FailsForAReason, FlagsTyped,
     DataTyped, BreakInv, Held
<1>11. LossInv'
  BY <1>0, <1>1 DEF LossInv, WatchedInv, Due, Terminal, FlagsTyped, DataTyped
<1> QED
  BY <1>3, <1>4, <1>5, <1>6, <1>7, <1>8, <1>9, <1>10, <1>11 DEF TriageInv

LEMMA WriteUnseenKept ==
  ASSUME TriageInv, WriteUnseen
  PROVE  TriageInv'
<1>0. Typed /\ FlagsTyped /\ DataTyped /\ EndInv /\ ArmsInv /\ CountInv /\ CallInv /\ BreakInv /\ RearmInv /\ FaultInv /\ LossInv
  BY TypeSplit DEF TriageInv
<1>1. /\ f = "no" /\ (strays > 0 \/ Terminal) /\ missed' = TRUE
      /\ UNCHANGED <<rearm, accepting, phaseValue, stopReason, evidenceLost, observed, exact, unresolved,
         truncated, sessionObserved, breakInArm, strays, rearms, finishing, shutdownRelease, f,
         window, paused, queue, h, task, tries, hub, reply, inv, wire, lookup, link, registration,
         workload, writes, fault>>
  BY <1>0 DEF WriteUnseen, verdict, counts, session, shutdown, reattach, calls, server, seen, Collector,
     ServerRest
<1>3. Typed'
  <2>1. FlagsTyped'
    BY <1>0, <1>1 DEF FlagsTyped
  <2>2. DataTyped'
    BY <1>0, <1>1 DEF DataTyped
  <2> QED
    BY <2>1, <2>2, TypeSplit
<1>4. EndInv'
  BY <1>0, <1>1 DEF EndInv, Terminal, FlagsTyped, DataTyped
<1>5. ArmsInv'
  BY <1>0, <1>1 DEF ArmsInv, Terminal, FlagsTyped, DataTyped
<1>6. CountInv'
  BY <1>0, <1>1 DEF CountInv, Terminal, FlagsTyped, DataTyped
<1>7. CallInv'
  BY <1>0, <1>1 DEF CallInv, FlagsTyped, DataTyped
<1>8. BreakInv'
  BY <1>0, <1>1 DEF BreakInv, Broken, Ended, Held, Refused, FlagsTyped, DataTyped
<1>9. RearmInv'
  BY <1>0, <1>1 DEF RearmInv, Broken, Ended, Terminal, FlagsTyped, DataTyped
<1>10. FaultInv'
  BY <1>0, <1>1 DEF FaultInv, CalmInv, Broken, Refused, Released, Terminal, FailsForAReason, FlagsTyped,
     DataTyped
<1>11. LossInv'
  BY <1>0, <1>1 DEF LossInv, WatchedInv, Due, Terminal, FlagsTyped, DataTyped, EndInv
<1> QED
  BY <1>3, <1>4, <1>5, <1>6, <1>7, <1>8, <1>9, <1>10, <1>11 DEF TriageInv

\* A write breaks: the one break that is under way now, and the write it makes due.
LEMMA WriteKept ==
  ASSUME TriageInv, Write
  PROVE  TriageInv'
<1>0. Typed /\ FlagsTyped /\ DataTyped /\ EndInv /\ ArmsInv /\ CountInv /\ CallInv /\ BreakInv /\ RearmInv /\ FaultInv /\ LossInv
  BY TypeSplit DEF TriageInv
<1>m. PICK m : m = [kind |-> "break"]
  OBVIOUS
<1>k. m \in Breaks /\ m \in Message /\ m \notin Detaches /\ m \notin Fatals
      /\ \A who, answers : m \notin Answers(who, answers)
  BY <1>m, Kinds
<1>1. /\ workload = "running" /\ writes < MaxWrites
      /\ workload' = "paused" /\ writes' = writes + 1
      /\ wire' = Append(wire, m)
      /\ UNCHANGED <<rearm, accepting, phaseValue, stopReason, evidenceLost, observed, exact, unresolved,
         truncated, sessionObserved, breakInArm, strays, rearms, finishing, shutdownRelease, f,
         window, paused, queue, h, task, tries, hub, reply, inv, lookup, link, registration, missed,
         fault>>
  BY <1>0, <1>m DEF Write, verdict, counts, session, shutdown, reattach, calls, server, seen, Collector,
     ServerRest
<1>2. /\ wire' \in Seq(Message)
      /\ \A A : In(wire', A) <=> In(wire, A) \/ m \in A
      /\ \A A, B : Never(wire, A, B) /\ (m \in B => ~In(wire, A)) => Never(wire', A, B)
  BY <1>0, <1>1, <1>k, Sent DEF DataTyped
<1>3. Typed'
  <2>1. FlagsTyped'
    BY <1>0, <1>1, <1>2 DEF FlagsTyped
  <2>2. DataTyped'
    BY <1>0, <1>1, <1>2, TriageAssumption DEF DataTyped
  <2> QED
    BY <2>1, <2>2, TypeSplit
<1>4. EndInv'
  BY <1>0, <1>1, <1>2, <1>k DEF EndInv, Terminal, FlagsTyped, DataTyped, BreakInv
<1>5. ArmsInv'
  BY <1>0, <1>1, <1>2, <1>k DEF ArmsInv, Terminal, FlagsTyped, DataTyped
<1>6. CountInv'
  BY <1>0, <1>1, <1>2, <1>k DEF CountInv, Terminal, FlagsTyped, DataTyped
<1>7. CallInv'
  BY <1>0, <1>1, <1>2, <1>k DEF CallInv, FlagsTyped, DataTyped
<1>8. BreakInv'
  BY <1>0, <1>1, <1>2, <1>k DEF BreakInv, Broken, Ended, Held, Refused, FlagsTyped, DataTyped
<1>9. RearmInv'
  BY <1>0, <1>1, <1>2, <1>k DEF RearmInv, Broken, Ended, Terminal, FlagsTyped, DataTyped, BreakInv
<1>10. FaultInv'
  BY <1>0, <1>1, <1>2, <1>k DEF FaultInv, CalmInv, Broken, Refused, Released, Terminal, FailsForAReason,
     FlagsTyped, DataTyped, BreakInv, Held
<1>11. LossInv'
  BY <1>0, <1>1, <1>2, <1>k DEF LossInv, WatchedInv, Due, Terminal, FlagsTyped, DataTyped, BreakInv,
     Held, Ended, Broken, EndInv
<1> QED
  BY <1>3, <1>4, <1>5, <1>6, <1>7, <1>8, <1>9, <1>10, <1>11 DEF TriageInv

\* The session ends after its last break was continued, so no break follows its detach.
LEMMA SessionEndsKept ==
  ASSUME TriageInv, SessionEnds
  PROVE  TriageInv'
<1>0. Typed /\ FlagsTyped /\ DataTyped /\ EndInv /\ ArmsInv /\ CountInv /\ CallInv /\ BreakInv /\ RearmInv /\ FaultInv /\ LossInv
  BY TypeSplit DEF TriageInv
<1>m. PICK m : m = [kind |-> "detached"]
  OBVIOUS
<1>k. m \in Detaches /\ m \in Message /\ m \notin Breaks /\ m \notin Fatals
      /\ \A who, answers : m \notin Answers(who, answers)
  BY <1>m, Kinds
<1>1. /\ workload = "running"
      /\ workload' = "none" /\ registration' = "none"
      /\ wire' = Append(wire, m)
      /\ UNCHANGED <<rearm, accepting, phaseValue, stopReason, evidenceLost, observed, exact, unresolved,
         truncated, sessionObserved, breakInArm, strays, rearms, finishing, shutdownRelease, f,
         window, paused, queue, h, task, tries, hub, reply, inv, lookup, link, writes, missed,
         fault>>
  BY <1>0, <1>m DEF SessionEnds, verdict, counts, session, shutdown, reattach, calls, server, seen,
     Collector, ServerRest
<1>2. /\ wire' \in Seq(Message)
      /\ \A A : In(wire', A) <=> In(wire, A) \/ m \in A
      /\ \A A, B : Never(wire, A, B) /\ (m \in B => ~In(wire, A)) => Never(wire', A, B)
  BY <1>0, <1>1, <1>k, Sent DEF DataTyped
<1>3. Typed'
  <2>1. FlagsTyped'
    BY <1>0, <1>1, <1>2 DEF FlagsTyped
  <2>2. DataTyped'
    BY <1>0, <1>1, <1>2, TriageAssumption DEF DataTyped
  <2> QED
    BY <2>1, <2>2, TypeSplit
<1>4. EndInv'
  BY <1>0, <1>1, <1>2, <1>k DEF EndInv, Terminal, FlagsTyped, DataTyped, BreakInv
<1>5. ArmsInv'
  BY <1>0, <1>1, <1>2, <1>k DEF ArmsInv, Terminal, FlagsTyped, DataTyped
<1>6. CountInv'
  BY <1>0, <1>1, <1>2, <1>k DEF CountInv, Terminal, FlagsTyped, DataTyped
<1>7. CallInv'
  BY <1>0, <1>1, <1>2, <1>k DEF CallInv, FlagsTyped, DataTyped
<1>8. BreakInv'
  BY <1>0, <1>1, <1>2, <1>k DEF BreakInv, Broken, Ended, Held, Refused, FlagsTyped, DataTyped
<1>9. RearmInv'
  BY <1>0, <1>1, <1>2, <1>k DEF RearmInv, Broken, Ended, Terminal, FlagsTyped, DataTyped, BreakInv
<1>10. FaultInv'
  BY <1>0, <1>1, <1>2, <1>k DEF FaultInv, CalmInv, Broken, Refused, Released, Terminal, FailsForAReason,
     FlagsTyped, DataTyped, BreakInv, Held
<1>11. LossInv'
  BY <1>0, <1>1, <1>2, <1>k DEF LossInv, WatchedInv, Due, Terminal, FlagsTyped, DataTyped, BreakInv,
     Held, Ended, Broken, EndInv
<1> QED
  BY <1>3, <1>4, <1>5, <1>6, <1>7, <1>8, <1>9, <1>10, <1>11 DEF TriageInv

LEMMA DebuggerExceptionKept ==
  ASSUME TriageInv, DebuggerException
  PROVE  TriageInv'
<1>0. Typed /\ FlagsTyped /\ DataTyped /\ EndInv /\ ArmsInv /\ CountInv /\ CallInv /\ BreakInv /\ RearmInv /\ FaultInv /\ LossInv
  BY TypeSplit DEF TriageInv
<1>m. PICK m : m = [kind |-> "fatal"]
  OBVIOUS
<1>k. m \in Fatals /\ m \in Message /\ m \notin Breaks /\ m \notin Detaches
      /\ \A who, answers : m \notin Answers(who, answers)
  BY <1>m, Kinds
<1>1. /\ link = "up" /\ registration # "none"
      /\ fault' = TRUE
      /\ wire' = Append(wire, m)
      /\ UNCHANGED <<rearm, accepting, phaseValue, stopReason, evidenceLost, observed, exact, unresolved,
         truncated, sessionObserved, breakInArm, strays, rearms, finishing, shutdownRelease, f,
         window, paused, queue, h, task, tries, hub, reply, inv, lookup, link, registration,
         workload, writes, missed>>
  BY <1>0, <1>m DEF DebuggerException, verdict, counts, session, shutdown, reattach, calls, server, seen,
     Collector, ServerRest
<1>2. /\ wire' \in Seq(Message)
      /\ \A A : In(wire', A) <=> In(wire, A) \/ m \in A
      /\ \A A, B : Never(wire, A, B) /\ (m \in B => ~In(wire, A)) => Never(wire', A, B)
  BY <1>0, <1>1, <1>k, Sent DEF DataTyped
<1>3. Typed'
  <2>1. FlagsTyped'
    BY <1>0, <1>1, <1>2 DEF FlagsTyped
  <2>2. DataTyped'
    BY <1>0, <1>1, <1>2, TriageAssumption DEF DataTyped
  <2> QED
    BY <2>1, <2>2, TypeSplit
<1>4. EndInv'
  BY <1>0, <1>1, <1>2, <1>k DEF EndInv, Terminal, FlagsTyped, DataTyped, BreakInv
<1>5. ArmsInv'
  BY <1>0, <1>1, <1>2, <1>k DEF ArmsInv, Terminal, FlagsTyped, DataTyped
<1>6. CountInv'
  BY <1>0, <1>1, <1>2, <1>k DEF CountInv, Terminal, FlagsTyped, DataTyped
<1>7. CallInv'
  BY <1>0, <1>1, <1>2, <1>k DEF CallInv, FlagsTyped, DataTyped
<1>8. BreakInv'
  BY <1>0, <1>1, <1>2, <1>k DEF BreakInv, Broken, Ended, Held, Refused, FlagsTyped, DataTyped
<1>9. RearmInv'
  BY <1>0, <1>1, <1>2, <1>k DEF RearmInv, Broken, Ended, Terminal, FlagsTyped, DataTyped, BreakInv
<1>10. FaultInv'
  BY <1>0, <1>1, <1>2, <1>k DEF FaultInv, CalmInv, Broken, Refused, Released, Terminal, FailsForAReason,
     FlagsTyped, DataTyped, BreakInv, Held
<1>11. LossInv'
  BY <1>0, <1>1, <1>2, <1>k DEF LossInv, WatchedInv, Due, Terminal, FlagsTyped, DataTyped, BreakInv,
     Held, Ended, Broken, EndInv
<1> QED
  BY <1>3, <1>4, <1>5, <1>6, <1>7, <1>8, <1>9, <1>10, <1>11 DEF TriageInv

----------------------------------------------------------------------------
(* The connection *)

LEMMA ServerAnswersAttachKept ==
  ASSUME TriageInv, ServerAnswersAttach
  PROVE  TriageInv'
<1>0. Typed /\ FlagsTyped /\ DataTyped /\ EndInv /\ ArmsInv /\ CountInv /\ CallInv /\ BreakInv /\ RearmInv /\ FaultInv /\ LossInv
  BY TypeSplit DEF TriageInv
<1>a. PICK answer \in Either :
         (answer = "busy" => reply["R"] = "pending") /\ wire' = Append(wire, Completes("R", answer)) /\ fault' = (fault \/ answer = "error")
  BY DEF ServerAnswersAttach, Either
<1>m. PICK m : m = Completes("R", answer)
  OBVIOUS
<1>p. /\ m = Completes("R", answer) /\ ServerAnswersAttach
      /\ (answer = "busy" => reply["R"] = "pending") /\ wire' = Append(wire, m) /\ fault' = (fault \/ answer = "error")
  BY <1>a, <1>m
<1>k. /\ m \in Message /\ m \notin Breaks /\ m \notin Detaches /\ m \notin Fatals
      /\ \A v, answers : m \in Answers(v, answers) <=> v = "R" /\ answer \in answers
  BY <1>p, Completed DEF Either
<1>1. /\ answer = "busy" => reply["R"] = "pending"
      /\ fault' \in BOOLEAN /\ (fault' <=> fault \/ answer = "error")
      /\ wire' = Append(wire, m)
      /\ link = "up" /\ ~In(wire, Answers("R", Either)) /\ ~In(wire, Answers("R", {"busy"}))
      /\ UNCHANGED <<rearm, accepting, phaseValue, stopReason, evidenceLost, observed, exact, unresolved,
         truncated, sessionObserved, breakInArm, strays, rearms, finishing, shutdownRelease, f,
         window, paused, queue, h, task, tries, hub, reply, inv, lookup, link, registration,
         workload, writes, missed>>
  BY <1>0, <1>p, NotAnswered DEF ServerAnswersAttach, FlagsTyped, verdict, counts, session, shutdown,
     reattach, calls, server, seen, Collector, ServerRest
<1>2. /\ wire' \in Seq(Message)
      /\ \A A : In(wire', A) <=> In(wire, A) \/ m \in A
      /\ \A A, B : Never(wire, A, B) /\ (m \in B => ~In(wire, A)) => Never(wire', A, B)
  BY <1>0, <1>1, <1>k, Sent DEF DataTyped
<1>3. Typed'
  <2>1. FlagsTyped'
    BY <1>0, <1>1, <1>2 DEF FlagsTyped
  <2>2. DataTyped'
    BY <1>0, <1>1, <1>2 DEF DataTyped
  <2> QED
    BY <2>1, <2>2, TypeSplit
<1>4. EndInv'
  BY <1>0, <1>1, <1>2, <1>k DEF EndInv, Terminal, FlagsTyped, DataTyped
<1>5. ArmsInv'
  BY <1>0, <1>1, <1>2, <1>k DEF ArmsInv, Terminal, FlagsTyped, DataTyped
<1>6. CountInv'
  BY <1>0, <1>1, <1>2, <1>k DEF CountInv, Terminal, FlagsTyped, DataTyped
<1>7. CallInv'
  BY <1>0, <1>1, <1>2, <1>k DEF CallInv, FlagsTyped, DataTyped
<1>8. BreakInv'
  BY <1>0, <1>1, <1>2, <1>k DEF BreakInv, Broken, Ended, Held, Refused, FlagsTyped, DataTyped
<1>9. RearmInv'
  BY <1>0, <1>1, <1>2, <1>k DEF RearmInv, Broken, Ended, Terminal, FlagsTyped, DataTyped
<1>10. FaultInv'
  BY <1>0, <1>1, <1>2, <1>k DEF FaultInv, CalmInv, Broken, Refused, Released, Terminal, FailsForAReason,
     FlagsTyped, DataTyped
<1>11. LossInv'
  BY <1>0, <1>1, <1>2, <1>k DEF LossInv, WatchedInv, Due, Terminal, FlagsTyped, DataTyped
<1> QED
  BY <1>3, <1>4, <1>5, <1>6, <1>7, <1>8, <1>9, <1>10, <1>11 DEF TriageInv

LEMMA CallbackLost ==
  ASSUME TriageInv, Callback, ~hub \/ ~accepting
  PROVE  TriageInv'
<1>0. Typed /\ FlagsTyped /\ DataTyped /\ EndInv /\ ArmsInv /\ CountInv /\ CallInv /\ BreakInv /\ RearmInv /\ FaultInv /\ LossInv
  BY TypeSplit DEF TriageInv
<1>p. PICK m : m = Head(wire)
  OBVIOUS
<1>1. /\ wire # <<>> /\ link = "up" /\ m = Head(wire) /\ m.kind \in {"break", "detached", "fatal"}
      /\ wire' = Tail(wire)
      /\ UNCHANGED <<rearm, accepting, phaseValue, stopReason, evidenceLost, observed, exact, unresolved,
         truncated, sessionObserved, breakInArm, strays, rearms, finishing, shutdownRelease, f,
         window, paused, queue, h, task, tries, hub, reply, inv, lookup, link, registration,
         workload, writes, missed, fault>>
  BY <1>0, <1>p DEF Callback, Accept, verdict, counts, session, shutdown, reattach, calls, server, seen,
     Collector, ServerRest
<1>2. /\ m \in Message /\ wire' \in Seq(Message)
      /\ \A A : In(wire, A) <=> m \in A \/ In(wire', A)
      /\ \A A, B : Never(wire, A, B) => Never(wire', A, B) /\ (m \in A => ~In(wire', B))
  BY <1>0, <1>1, Taken DEF DataTyped
<1>k. \A who, answers : m \notin Answers(who, answers)
  BY <1>1, <1>2, KindOf
<1>3. Typed'
  <2>1. FlagsTyped'
    BY <1>0, <1>1, <1>2 DEF FlagsTyped
  <2>2. DataTyped'
    BY <1>0, <1>1, <1>2 DEF DataTyped
  <2> QED
    BY <2>1, <2>2, TypeSplit
<1>4. EndInv'
  BY <1>0, <1>1, <1>2, <1>k DEF EndInv, Terminal, FlagsTyped, DataTyped
<1>5. ArmsInv'
  BY <1>0, <1>1, <1>2, <1>k DEF ArmsInv, Terminal, FlagsTyped, DataTyped
<1>6. CountInv'
  BY <1>0, <1>1, <1>2, <1>k DEF CountInv, Terminal, FlagsTyped, DataTyped
<1>7. CallInv'
  BY <1>0, <1>1, <1>2, <1>k DEF CallInv, FlagsTyped, DataTyped
<1>8. BreakInv'
  BY <1>0, <1>1, <1>2, <1>k DEF BreakInv, Broken, Ended, Held, Refused, FlagsTyped, DataTyped
<1>9. RearmInv'
  BY <1>0, <1>1, <1>2, <1>k DEF RearmInv, Broken, Ended, Terminal, FlagsTyped, DataTyped
<1>10. FaultInv'
  BY <1>0, <1>1, <1>2, <1>k DEF FaultInv, CalmInv, Broken, Refused, Released, Terminal, FailsForAReason,
     FlagsTyped, DataTyped
<1>11. LossInv'
  BY <1>0, <1>1, <1>2, <1>k DEF LossInv, WatchedInv, Due, Terminal, FlagsTyped, DataTyped, EndInv
<1> QED
  BY <1>3, <1>4, <1>5, <1>6, <1>7, <1>8, <1>9, <1>10, <1>11 DEF TriageInv

\* A callback moves from the connection to the chain, in order.
LEMMA CallbackKept ==
  ASSUME TriageInv, Callback, hub, accepting
  PROVE  TriageInv'
<1>0. Typed /\ FlagsTyped /\ DataTyped /\ EndInv /\ ArmsInv /\ CountInv /\ CallInv /\ BreakInv /\ RearmInv /\ FaultInv /\ LossInv
  BY TypeSplit DEF TriageInv
<1>p. PICK m : m = Head(wire)
  OBVIOUS
<1>1. /\ wire # <<>> /\ link = "up" /\ m = Head(wire) /\ m.kind \in {"break", "detached", "fatal"}
      /\ wire' = Tail(wire) /\ queue' = Append(queue, m.kind)
      /\ UNCHANGED <<rearm, accepting, phaseValue, stopReason, evidenceLost, observed, exact, unresolved,
         truncated, sessionObserved, breakInArm, strays, rearms, finishing, shutdownRelease, f,
         window, paused, h, task, tries, hub, reply, inv, lookup, link, registration, workload,
         writes, missed, fault>>
  BY <1>0, <1>p DEF Callback, Accept, verdict, counts, session, shutdown, reattach, calls, server, seen,
     Collector, ServerRest
<1>2. /\ m \in Message /\ wire' \in Seq(Message)
      /\ \A A : In(wire, A) <=> m \in A \/ In(wire', A)
      /\ \A A, B : Never(wire, A, B) => Never(wire', A, B) /\ (m \in A => ~In(wire', B))
  BY <1>0, <1>1, Taken DEF DataTyped
<1>q. /\ queue' \in Seq(Event)
      /\ \A A : In(queue', A) <=> In(queue, A) \/ m.kind \in A
      /\ \A A, B : Never(queue, A, B) /\ (m.kind \in B => ~In(queue, A)) => Never(queue', A, B)
  <2>1. queue \in Seq(Event) /\ m.kind \in Event
    BY <1>0, <1>1 DEF DataTyped, Event
  <2> QED
    BY <1>1, <2>1, Sent
<1>k. /\ \A who, answers : m \notin Answers(who, answers)
      /\ m.kind = "break" <=> m \in Breaks
      /\ m.kind = "detached" <=> m \in Detaches
      /\ m.kind = "fatal" <=> m \in Fatals
  BY <1>1, <1>2, KindOf
<1>3. Typed'
  <2>1. FlagsTyped'
    BY <1>0, <1>1, <1>2 DEF FlagsTyped
  <2>2. DataTyped'
    BY <1>0, <1>1, <1>2, <1>k, <1>q DEF DataTyped
  <2> QED
    BY <2>1, <2>2, TypeSplit
<1>4. EndInv'
  BY <1>0, <1>1, <1>2, <1>k, <1>q DEF EndInv, Terminal, FlagsTyped, DataTyped
<1>5. ArmsInv'
  BY <1>0, <1>1, <1>2, <1>k, <1>q DEF ArmsInv, Terminal, FlagsTyped, DataTyped
<1>6. CountInv'
  BY <1>0, <1>1, <1>2, <1>k, <1>q DEF CountInv, Terminal, FlagsTyped, DataTyped
<1>7. CallInv'
  BY <1>0, <1>1, <1>2, <1>k, <1>q DEF CallInv, FlagsTyped, DataTyped
<1>8. BreakInv'
  BY <1>0, <1>1, <1>2, <1>k, <1>q DEF BreakInv, Broken, Ended, Held, Refused, FlagsTyped, DataTyped
<1>9. RearmInv'
  BY <1>0, <1>1, <1>2, <1>k, <1>q DEF RearmInv, Broken, Ended, Terminal, FlagsTyped, DataTyped
<1>10. FaultInv'
  BY <1>0, <1>1, <1>2, <1>k, <1>q DEF FaultInv, CalmInv, Broken, Refused, Released, Terminal,
     FailsForAReason, FlagsTyped, DataTyped, EndInv
<1>11. LossInv'
  BY <1>0, <1>1, <1>2, <1>k, <1>q DEF LossInv, WatchedInv, Due, Terminal, FlagsTyped, DataTyped, EndInv,
     BreakInv
<1> QED
  BY <1>3, <1>4, <1>5, <1>6, <1>7, <1>8, <1>9, <1>10, <1>11 DEF TriageInv

\* An answer reaches the one who waits for it.
LEMMA CompletionKept ==
  ASSUME TriageInv, Completion
  PROVE  TriageInv'
<1>0. Typed /\ FlagsTyped /\ DataTyped /\ EndInv /\ ArmsInv /\ CountInv /\ CallInv /\ BreakInv /\ RearmInv /\ FaultInv /\ LossInv
  BY TypeSplit DEF TriageInv
<1>m. PICK m : m = Head(wire)
  OBVIOUS
<1>t. wire # <<>> /\ m.kind = "completion" /\ m \in Message
  BY <1>0, <1>m, Taken DEF Completion, DataTyped
<1>p. PICK who \in {"H", "F", "R"}, answer \in Either : m = Completes(who, answer) /\ who = m.who /\ answer = m.answer /\ m = Head(wire)
  BY <1>t, <1>m, Completed
<1>1. /\ wire # <<>> /\ link = "up"
      /\ wire' = Tail(wire) /\ reply' = [reply EXCEPT ![who] = answer]
      /\ UNCHANGED <<rearm, accepting, phaseValue, stopReason, evidenceLost, observed, exact, unresolved,
         truncated, sessionObserved, breakInArm, strays, rearms, finishing, shutdownRelease, f,
         window, paused, queue, h, task, tries, hub, inv, lookup, link, registration, workload,
         writes, missed, fault>>
  BY <1>0, <1>p DEF Completion, Collector, verdict, counts, session, shutdown, reattach, calls, server,
     seen, ServerRest
<1>2. /\ m \in Message /\ wire' \in Seq(Message)
      /\ \A A : In(wire, A) <=> m \in A \/ In(wire', A)
      /\ \A A, B : Never(wire, A, B) => Never(wire', A, B) /\ (m \in A => ~In(wire', B))
  BY <1>0, <1>1, <1>p, Taken DEF DataTyped
<1>k. /\ m \notin Breaks /\ m \notin Detaches /\ m \notin Fatals
      /\ \A v, answers : m \in Answers(v, answers) <=> v = who /\ answer \in answers
  BY <1>p, Completed
<1>n. /\ In(wire, Answers(who, Either)) /\ ~In(wire', Answers(who, Either))
      /\ \A a \in Either : ~In(wire', Answers(who, {a}))
      /\ In(wire, Answers(who, {answer}))
  BY <1>0, <1>2, <1>k, <1>p, AnAnswer DEF CallInv
<1>b. who = "R" /\ answer = "busy" => reply["R"] = "pending"
  BY <1>0, <1>n DEF CallInv
<1>r. reply'[who] = answer /\ \A v \in {"H", "F", "R"} : v # who => reply'[v] = reply[v]
  BY <1>0, <1>1 DEF DataTyped
<1>3. Typed'
  <2>1. FlagsTyped'
    BY <1>0, <1>1, <1>2 DEF FlagsTyped
  <2>2. DataTyped'
    BY <1>0, <1>1, <1>2 DEF DataTyped, Either
  <2> QED
    BY <2>1, <2>2, TypeSplit
<1>4. EndInv'
  BY <1>0, <1>1, <1>2, <1>k DEF EndInv, Terminal, FlagsTyped, DataTyped
<1>5. ArmsInv'
  BY <1>0, <1>1, <1>2, <1>k DEF ArmsInv, Terminal, FlagsTyped, DataTyped
<1>6. CountInv'
  BY <1>0, <1>1, <1>2, <1>k DEF CountInv, Terminal, FlagsTyped, DataTyped
<1>7. CallInv'
  BY <1>0, <1>1, <1>2, <1>k, <1>n, <1>p, <1>r DEF CallInv, FlagsTyped, DataTyped, Either
<1>8. BreakInv'
  BY <1>0, <1>1, <1>2, <1>k DEF BreakInv, Broken, Ended, Held, Refused, FlagsTyped, DataTyped
<1>9. RearmInv'
  <2>1. reply'["R"] \in {"pending", "busy"} => reply["R"] \in {"pending", "busy"}
    BY <1>b, <1>p, <1>r DEF Either
  <2>2. (Broken' => Broken) /\ (Ended' => Ended)
    BY <1>1, <1>2 DEF Broken, Ended
  <2> QED
    BY <1>0, <1>1, <2>1, <2>2 DEF RearmInv, Terminal
<1>10. FaultInv'
  BY SMTT(60), <1>0, <1>1, <1>2, <1>k, <1>n, <1>p, <1>r DEF FaultInv, CalmInv, Broken, Refused, Released, Terminal,
     FailsForAReason, FlagsTyped, DataTyped, CallInv, Either
<1>11. LossInv'
  BY <1>0, <1>1, <1>2, <1>k DEF LossInv, WatchedInv, Due, Terminal, FlagsTyped, DataTyped
<1> QED
  BY <1>3, <1>4, <1>5, <1>6, <1>7, <1>8, <1>9, <1>10, <1>11 DEF TriageInv

LEMMA SessionUnheard ==
  ASSUME TriageInv, SessionBound, ~accepting
  PROVE  TriageInv'
<1>0. Typed /\ FlagsTyped /\ DataTyped /\ EndInv /\ ArmsInv /\ CountInv /\ CallInv /\ BreakInv /\ RearmInv /\ FaultInv /\ LossInv
  BY TypeSplit DEF TriageInv
<1>1. /\ hub /\ lookup' = FALSE
      /\ UNCHANGED <<rearm, accepting, phaseValue, stopReason, evidenceLost, observed, exact, unresolved,
         truncated, sessionObserved, breakInArm, strays, rearms, finishing, shutdownRelease, f,
         window, paused, queue, h, task, tries, hub, reply, inv, wire, link, registration, workload,
         writes, missed, fault>>
  BY <1>0 DEF SessionBound, Accept, verdict, counts, session, shutdown, reattach, calls, server, seen,
     Collector, ServerRest
<1>3. Typed'
  <2>1. FlagsTyped'
    BY <1>0, <1>1 DEF FlagsTyped
  <2>2. DataTyped'
    BY <1>0, <1>1 DEF DataTyped
  <2> QED
    BY <2>1, <2>2, TypeSplit
<1>4. EndInv'
  BY <1>0, <1>1 DEF EndInv, Terminal, FlagsTyped, DataTyped
<1>5. ArmsInv'
  BY <1>0, <1>1 DEF ArmsInv, Terminal, FlagsTyped, DataTyped
<1>6. CountInv'
  BY <1>0, <1>1 DEF CountInv, Terminal, FlagsTyped, DataTyped
<1>7. CallInv'
  BY <1>0, <1>1 DEF CallInv, FlagsTyped, DataTyped
<1>8. BreakInv'
  BY <1>0, <1>1 DEF BreakInv, Broken, Ended, Held, Refused, FlagsTyped, DataTyped
<1>9. RearmInv'
  BY <1>0, <1>1 DEF RearmInv, Broken, Ended, Terminal, FlagsTyped, DataTyped
<1>10. FaultInv'
  BY <1>0, <1>1 DEF FaultInv, CalmInv, Broken, Refused, Released, Terminal, FailsForAReason, FlagsTyped,
     DataTyped
<1>11. LossInv'
  BY <1>0, <1>1 DEF LossInv, WatchedInv, Due, Terminal, FlagsTyped, DataTyped
<1> QED
  BY <1>3, <1>4, <1>5, <1>6, <1>7, <1>8, <1>9, <1>10, <1>11 DEF TriageInv

LEMMA SessionBoundKept ==
  ASSUME TriageInv, SessionBound, accepting
  PROVE  TriageInv'
<1>0. Typed /\ FlagsTyped /\ DataTyped /\ EndInv /\ ArmsInv /\ CountInv /\ CallInv /\ BreakInv /\ RearmInv /\ FaultInv /\ LossInv
  BY TypeSplit DEF TriageInv
<1>1. /\ hub /\ lookup' = FALSE /\ queue' = Append(queue, "bound")
      /\ UNCHANGED <<rearm, accepting, phaseValue, stopReason, evidenceLost, observed, exact, unresolved,
         truncated, sessionObserved, breakInArm, strays, rearms, finishing, shutdownRelease, f,
         window, paused, h, task, tries, hub, reply, inv, wire, link, registration, workload,
         writes, missed, fault>>
  BY <1>0 DEF SessionBound, Accept, verdict, counts, session, shutdown, reattach, calls, server, seen,
     Collector, ServerRest
<1>2. /\ queue' \in Seq(Event)
      /\ \A A : In(queue', A) <=> In(queue, A) \/ "bound" \in A
      /\ \A A, B : Never(queue, A, B) /\ ("bound" \in B => ~In(queue, A)) => Never(queue', A, B)
  <2>1. queue \in Seq(Event) /\ "bound" \in Event
    BY <1>0, <1>1 DEF DataTyped, Event
  <2> QED
    BY <1>1, <2>1, Sent
<1>3. Typed'
  <2>1. FlagsTyped'
    BY <1>0, <1>1, <1>2 DEF FlagsTyped
  <2>2. DataTyped'
    BY <1>0, <1>1, <1>2 DEF DataTyped
  <2> QED
    BY <2>1, <2>2, TypeSplit
<1>4. EndInv'
  BY <1>0, <1>1, <1>2 DEF EndInv, Terminal, FlagsTyped, DataTyped
<1>5. ArmsInv'
  BY <1>0, <1>1, <1>2 DEF ArmsInv, Terminal, FlagsTyped, DataTyped
<1>6. CountInv'
  BY <1>0, <1>1, <1>2 DEF CountInv, Terminal, FlagsTyped, DataTyped
<1>7. CallInv'
  BY <1>0, <1>1, <1>2 DEF CallInv, FlagsTyped, DataTyped
<1>8. BreakInv'
  BY <1>0, <1>1, <1>2 DEF BreakInv, Broken, Ended, Held, Refused, FlagsTyped, DataTyped
<1>9. RearmInv'
  BY <1>0, <1>1, <1>2 DEF RearmInv, Broken, Ended, Terminal, FlagsTyped, DataTyped
<1>10. FaultInv'
  BY <1>0, <1>1, <1>2 DEF FaultInv, CalmInv, Broken, Refused, Released, Terminal, FailsForAReason,
     FlagsTyped, DataTyped, EndInv
<1>11. LossInv'
  BY <1>0, <1>1, <1>2 DEF LossInv, WatchedInv, Due, Terminal, FlagsTyped, DataTyped
<1> QED
  BY <1>3, <1>4, <1>5, <1>6, <1>7, <1>8, <1>9, <1>10, <1>11 DEF TriageInv

LEMMA HubClosedUnheard ==
  ASSUME TriageInv, HubClosed, ~accepting
  PROVE  TriageInv'
<1>0. Typed /\ FlagsTyped /\ DataTyped /\ EndInv /\ ArmsInv /\ CountInv /\ CallInv /\ BreakInv /\ RearmInv /\ FaultInv /\ LossInv
  BY TypeSplit DEF TriageInv
<1>1. /\ hub /\ hub' = FALSE /\ fault' = TRUE
      /\ link' = "down" /\ inv' = <<>> /\ wire' = <<>> /\ lookup' = FALSE /\ registration' = "none" /\
         workload' = "none"
      /\ reply' = [w \in {"H", "F", "R"} |-> IF reply[w] \in {"pending", "registered"} THEN "error" ELSE
         reply[w]]
      /\ UNCHANGED <<rearm, accepting, phaseValue, stopReason, evidenceLost, observed, exact, unresolved,
         truncated, sessionObserved, breakInArm, strays, rearms, finishing, shutdownRelease, f,
         window, paused, queue, h, task, tries, writes, missed>>
  BY <1>0 DEF HubClosed, LinkDown, Accept, DataTyped, verdict, counts, session, shutdown, reattach,
     calls, server, seen, Collector, ServerRest
<1>2. \A A, B : ~In(wire', A) /\ Never(wire', A, B) /\ ~In(inv', A) /\ Never(inv', A, B)
  BY <1>1, Nothing
<1>3. Typed'
  <2>1. FlagsTyped'
    BY <1>0, <1>1, <1>2 DEF FlagsTyped
  <2>2. DataTyped'
    BY <1>0, <1>1, <1>2 DEF DataTyped
  <2> QED
    BY <2>1, <2>2, TypeSplit
<1>4. EndInv'
  BY <1>0, <1>1, <1>2 DEF EndInv, Terminal, FlagsTyped, DataTyped
<1>5. ArmsInv'
  BY <1>0, <1>1, <1>2 DEF ArmsInv, Terminal, FlagsTyped, DataTyped
<1>6. CountInv'
  BY <1>0, <1>1, <1>2 DEF CountInv, Terminal, FlagsTyped, DataTyped
<1>7. CallInv'
  BY <1>0, <1>1, <1>2 DEF CallInv, FlagsTyped, DataTyped
<1>8. BreakInv'
  BY <1>0, <1>1, <1>2 DEF BreakInv, Broken, Ended, Held, Refused, FlagsTyped, DataTyped
<1>9. RearmInv'
  BY <1>0, <1>1, <1>2 DEF RearmInv, Broken, Ended, Terminal, FlagsTyped, DataTyped
<1>10. FaultInv'
  BY <1>0, <1>1, <1>2 DEF FaultInv, CalmInv, Broken, Refused, Released, Terminal, FailsForAReason,
     FlagsTyped, DataTyped
<1>11. LossInv'
  BY <1>0, <1>1, <1>2 DEF LossInv, WatchedInv, Due, Terminal, FlagsTyped, DataTyped, EndInv
<1> QED
  BY <1>3, <1>4, <1>5, <1>6, <1>7, <1>8, <1>9, <1>10, <1>11 DEF TriageInv

\* A lost connection lets the workload go and leaves one fatal event.
LEMMA HubClosedKept ==
  ASSUME TriageInv, HubClosed, accepting
  PROVE  TriageInv'
<1>0. Typed /\ FlagsTyped /\ DataTyped /\ EndInv /\ ArmsInv /\ CountInv /\ CallInv /\ BreakInv /\ RearmInv /\ FaultInv /\ LossInv
  BY TypeSplit DEF TriageInv
<1>1. /\ hub /\ hub' = FALSE /\ fault' = TRUE /\ queue' = Append(queue, "fatal")
      /\ link' = "down" /\ inv' = <<>> /\ wire' = <<>> /\ lookup' = FALSE /\ registration' = "none" /\
         workload' = "none"
      /\ reply' = [w \in {"H", "F", "R"} |-> IF reply[w] \in {"pending", "registered"} THEN "error" ELSE
         reply[w]]
      /\ UNCHANGED <<rearm, accepting, phaseValue, stopReason, evidenceLost, observed, exact, unresolved,
         truncated, sessionObserved, breakInArm, strays, rearms, finishing, shutdownRelease, f,
         window, paused, h, task, tries, writes, missed>>
  BY <1>0 DEF HubClosed, LinkDown, Accept, DataTyped, verdict, counts, session, shutdown, reattach,
     calls, server, seen, Collector, ServerRest
<1>2. \A A, B : ~In(wire', A) /\ Never(wire', A, B) /\ ~In(inv', A) /\ Never(inv', A, B)
  BY <1>1, Nothing
<1>q. /\ queue' \in Seq(Event)
      /\ \A A : In(queue', A) <=> In(queue, A) \/ "fatal" \in A
      /\ \A A, B : Never(queue, A, B) /\ ("fatal" \in B => ~In(queue, A)) => Never(queue', A, B)
  <2>1. queue \in Seq(Event) /\ "fatal" \in Event
    BY <1>0, <1>1 DEF DataTyped, Event
  <2> QED
    BY <1>1, <2>1, Sent
<1>3. Typed'
  <2>1. FlagsTyped'
    BY <1>0, <1>1, <1>2 DEF FlagsTyped
  <2>2. DataTyped'
    BY <1>0, <1>1, <1>2, <1>q DEF DataTyped
  <2> QED
    BY <2>1, <2>2, TypeSplit
<1>4. EndInv'
  BY <1>0, <1>1, <1>2, <1>q DEF EndInv, Terminal, FlagsTyped, DataTyped
<1>5. ArmsInv'
  BY <1>0, <1>1, <1>2, <1>q DEF ArmsInv, Terminal, FlagsTyped, DataTyped
<1>6. CountInv'
  BY <1>0, <1>1, <1>2, <1>q DEF CountInv, Terminal, FlagsTyped, DataTyped
<1>7. CallInv'
  BY <1>0, <1>1, <1>2, <1>q DEF CallInv, FlagsTyped, DataTyped
<1>8. BreakInv'
  BY <1>0, <1>1, <1>2, <1>q DEF BreakInv, Broken, Ended, Held, Refused, FlagsTyped, DataTyped
<1>9. RearmInv'
  BY <1>0, <1>1, <1>2, <1>q DEF RearmInv, Broken, Ended, Terminal, FlagsTyped, DataTyped
<1>10. FaultInv'
  BY <1>0, <1>1, <1>2, <1>q DEF FaultInv, CalmInv, Broken, Refused, Released, Terminal, FailsForAReason,
     FlagsTyped, DataTyped
<1>11. LossInv'
  BY <1>0, <1>1, <1>2, <1>q DEF LossInv, WatchedInv, Due, Terminal, FlagsTyped, DataTyped
<1> QED
  BY <1>3, <1>4, <1>5, <1>6, <1>7, <1>8, <1>9, <1>10, <1>11 DEF TriageInv


LEMMA ServerContinuesKept ==
  ASSUME TriageInv, ServerContinues
  PROVE  TriageInv'
<1>0. Typed /\ FlagsTyped /\ DataTyped /\ EndInv /\ ArmsInv /\ CountInv /\ CallInv /\ BreakInv /\ RearmInv /\ FaultInv /\ LossInv
  BY TypeSplit DEF TriageInv
<1>r. PICK r : r = Head(inv)
  OBVIOUS
<1>c. PICK c : c = Completes(r.who, "ok")
  OBVIOUS
<1>1. /\ inv # <<>> /\ r = Head(inv) /\ r.step = "continue" /\ workload = "paused"
      /\ inv' = Tail(inv) /\ workload' = "running" /\ wire' = Append(wire, c)
      /\ UNCHANGED <<rearm, accepting, phaseValue, stopReason, evidenceLost, observed, exact, unresolved,
         truncated, sessionObserved, breakInArm, strays, rearms, finishing, shutdownRelease, f,
         window, paused, queue, h, task, tries, hub, reply, lookup, link, registration, writes,
         missed, fault>>
  BY <1>0, <1>r, <1>c DEF ServerContinues, verdict, counts, session, shutdown, reattach, calls, server,
     seen, Collector, ServerRest
<1>2. /\ r \in Invocation /\ inv' \in Seq(Invocation)
      /\ \A A : In(inv, A) <=> r \in A \/ In(inv', A)
      /\ \A A, B : Never(inv, A, B) => Never(inv', A, B) /\ (r \in A => ~In(inv', B))
  BY <1>0, <1>1, Taken DEF DataTyped
<1>a. \/ r.who = "H" /\ r \in Asks("H") /\ r \notin Asks("F")
      \/ r.who = "F" /\ r.step = "release" /\ r \in Asks("F") /\ r \notin Asks("H")
  BY <1>2, Requests
<1>k. /\ c \in Message /\ c \notin Breaks /\ c \notin Detaches /\ c \notin Fatals
      /\ \A v, answers : c \in Answers(v, answers) <=> v = r.who /\ "ok" \in answers
  BY <1>a, <1>c, Completed DEF Either
<1>w. /\ wire' \in Seq(Message)
      /\ \A A : In(wire', A) <=> In(wire, A) \/ c \in A
      /\ \A A, B : Never(wire, A, B) /\ (c \in B => ~In(wire, A)) => Never(wire', A, B)
  BY <1>0, <1>1, <1>k, Sent DEF DataTyped
<1>n. In(inv, Asks(r.who)) /\ ~In(inv', Asks(r.who)) /\ ~In(wire, Answers(r.who, Either))
      /\ \A a \in Either : ~In(wire, Answers(r.who, {a}))
  BY <1>0, <1>2, <1>a, AnAnswer DEF CallInv
<1>3. Typed'
  <2>1. FlagsTyped'
    BY <1>0, <1>1, <1>2 DEF FlagsTyped
  <2>2. DataTyped'
    BY <1>0, <1>1, <1>2, <1>a, <1>k, <1>w, <1>n DEF DataTyped
  <2> QED
    BY <2>1, <2>2, TypeSplit
<1>4. EndInv'
  BY <1>0, <1>1, <1>2, <1>a, <1>k, <1>w, <1>n DEF EndInv, Terminal, FlagsTyped, DataTyped, Either
<1>5. ArmsInv'
  BY <1>0, <1>1, <1>2, <1>a, <1>k, <1>w, <1>n DEF ArmsInv, Terminal, FlagsTyped, DataTyped
<1>6. CountInv'
  BY <1>0, <1>1, <1>2, <1>a, <1>k, <1>w, <1>n DEF CountInv, Terminal, FlagsTyped, DataTyped
<1>7. CallInv'
  BY <1>0, <1>1, <1>2, <1>a, <1>k, <1>w, <1>n DEF CallInv, FlagsTyped, DataTyped, Either
<1>8. BreakInv'
  BY <1>0, <1>1, <1>2, <1>a, <1>k, <1>w, <1>n DEF BreakInv, Broken, Ended, Held, Refused, FlagsTyped,
     DataTyped, CallInv, Either
<1>9. RearmInv'
  BY <1>0, <1>1, <1>2, <1>a, <1>k, <1>w, <1>n DEF RearmInv, Broken, Ended, Terminal, FlagsTyped, DataTyped
<1>10. FaultInv'
  BY <1>0, <1>1, <1>2, <1>a, <1>k, <1>w, <1>n DEF FaultInv, CalmInv, Broken, Refused, Released, Terminal,
     FailsForAReason, FlagsTyped, DataTyped, CallInv, BreakInv, Held
<1>11. LossInv'
  BY <1>0, <1>1, <1>2, <1>a, <1>k, <1>w, <1>n DEF LossInv, WatchedInv, Due, Terminal, FlagsTyped,
     DataTyped, BreakInv, Held
<1> QED
  BY <1>3, <1>4, <1>5, <1>6, <1>7, <1>8, <1>9, <1>10, <1>11 DEF TriageInv

\* A release ends the session behind the last break: finish()'s release crosses a break only
\* before that break's handler asks for anything.
LEMMA ServerReleasesKept ==
  ASSUME TriageInv, ServerReleases
  PROVE  TriageInv'
<1>0. Typed /\ FlagsTyped /\ DataTyped /\ EndInv /\ ArmsInv /\ CountInv /\ CallInv /\ BreakInv /\ RearmInv /\ FaultInv /\ LossInv
  BY TypeSplit DEF TriageInv
<1>r. PICK r : r = Head(inv)
  OBVIOUS
<1>c. PICK c : c = Completes(r.who, "ok")
  OBVIOUS
<1>d. PICK d : d = [kind |-> "detached"]
  OBVIOUS
<1>1. /\ inv # <<>> /\ r = Head(inv) /\ r.step = "release" /\ workload # "none"
      /\ inv' = Tail(inv) /\ workload' = "none" /\ registration' = "none" /\ wire' = wire \o <<d, c>>
      /\ UNCHANGED <<rearm, accepting, phaseValue, stopReason, evidenceLost, observed, exact, unresolved,
         truncated, sessionObserved, breakInArm, strays, rearms, finishing, shutdownRelease, f,
         window, paused, queue, h, task, tries, hub, reply, lookup, link, writes, missed, fault>>
  BY <1>0, <1>r, <1>c, <1>d DEF ServerReleases, verdict, counts, session, shutdown, reattach, calls,
     server, seen, Collector, ServerRest
<1>2. /\ r \in Invocation /\ inv' \in Seq(Invocation)
      /\ \A A : In(inv, A) <=> r \in A \/ In(inv', A)
      /\ \A A, B : Never(inv, A, B) => Never(inv', A, B) /\ (r \in A => ~In(inv', B))
  BY <1>0, <1>1, Taken DEF DataTyped
<1>a. \/ r.who = "H" /\ r \in Asks("H") /\ r \notin Asks("F")
      \/ r.who = "F" /\ r.step = "release" /\ r \in Asks("F") /\ r \notin Asks("H")
  BY <1>2, Requests
<1>k. /\ c \in Message /\ c \notin Breaks /\ c \notin Detaches /\ c \notin Fatals
      /\ \A v, answers : c \in Answers(v, answers) <=> v = r.who /\ "ok" \in answers
  BY <1>a, <1>c, Completed DEF Either
<1>e. /\ d \in Message /\ d \notin Breaks /\ d \in Detaches /\ d \notin Fatals
      /\ \A v, answers : d \notin Answers(v, answers)
  BY <1>d, Kinds
<1>w. /\ wire' \in Seq(Message)
      /\ \A A : In(wire', A) <=> In(wire, A) \/ d \in A \/ c \in A
      /\ \A A, B : Never(wire, A, B) /\ (d \in B \/ c \in B => ~In(wire, A)) /\ (c \in B => d \notin A) => Never(wire', A, B)
  BY <1>0, <1>1, <1>k, <1>e, SentTwice DEF DataTyped
<1>n. In(inv, Asks(r.who)) /\ ~In(inv', Asks(r.who)) /\ ~In(wire, Answers(r.who, Either))
      /\ \A a \in Either : ~In(wire, Answers(r.who, {a}))
  BY <1>0, <1>2, <1>a, AnAnswer DEF CallInv
<1>3. Typed'
  <2>1. FlagsTyped'
    BY <1>0, <1>1, <1>2 DEF FlagsTyped
  <2>2. DataTyped'
    BY <1>0, <1>1, <1>2, <1>a, <1>k, <1>w, <1>n, <1>e DEF DataTyped
  <2> QED
    BY <2>1, <2>2, TypeSplit
<1>4. EndInv'
  BY <1>0, <1>1, <1>2, <1>a, <1>k, <1>w, <1>n, <1>e DEF EndInv, Terminal, FlagsTyped, DataTyped, Either
<1>5. ArmsInv'
  BY <1>0, <1>1, <1>2, <1>a, <1>k, <1>w, <1>n, <1>e DEF ArmsInv, Terminal, FlagsTyped, DataTyped
<1>6. CountInv'
  BY <1>0, <1>1, <1>2, <1>a, <1>k, <1>w, <1>n, <1>e DEF CountInv, Terminal, FlagsTyped, DataTyped
<1>7. CallInv'
  BY <1>0, <1>1, <1>2, <1>a, <1>k, <1>w, <1>n, <1>e DEF CallInv, FlagsTyped, DataTyped, Either
<1>8. BreakInv'
  BY <1>0, <1>1, <1>2, <1>a, <1>k, <1>w, <1>n, <1>e DEF BreakInv, Broken, Ended, Held, Refused,
     FlagsTyped, DataTyped, CallInv, Either
<1>9. RearmInv'
  BY <1>0, <1>1, <1>2, <1>a, <1>k, <1>w, <1>n, <1>e DEF RearmInv, Broken, Ended, Terminal, FlagsTyped,
     DataTyped, BreakInv
<1>10. FaultInv'
  <2>1. ASSUME ~fault, ~truncated PROVE CalmInv'
    <3>1. CalmInv
      BY <1>0, <2>1 DEF FaultInv
    <3>2. ~In(inv', Asks("H"))
      BY <1>2, <1>a, <1>n, <3>1 DEF CalmInv
    <3>3. Never(inv', Asks("F"), Asks("H"))
      BY <1>2, <3>1 DEF CalmInv
    <3>4. r.who = "H" => ~Broken /\ h \in {"releasing", "failReleasing"}
      BY <1>0, <1>n DEF CallInv, BreakInv, Held
    <3>5. r.who = "F" => Released'
      BY <1>k, <1>w DEF Released
    <3>6. (Broken' => Broken) /\ (Refused' => Refused) /\ (Released => Released')
      <4>1. Broken' => Broken
        BY <1>1, <1>k, <1>w, <1>e DEF Broken
      <4>2. Refused' => Refused
        <5>1. c \notin Answers("H", {"error"}) /\ d \notin Answers("H", {"error"})
          BY <1>k, <1>e
        <5>2. In(wire', Answers("H", {"error"})) => In(wire, Answers("H", {"error"}))
          BY <1>w, <5>1
        <5> QED
          BY <1>1, <5>2 DEF Refused
      <4>3. Released => Released'
        BY <1>1, <1>w DEF Released
      <4> QED
        BY <4>1, <4>2, <4>3
    <3> QED
      BY <1>0, <1>1, <1>a, <3>1, <3>2, <3>3, <3>4, <3>5, <3>6 DEF CalmInv, Terminal, BreakInv
  <2> QED
    BY SMTT(60), <1>0, <1>1, <1>k, <1>w, <1>e, <2>1 DEF FaultInv, FailsForAReason
<1>11. LossInv'
  BY <1>0, <1>1, <1>2, <1>a, <1>k, <1>w, <1>n, <1>e DEF LossInv, WatchedInv, Due, Terminal, FlagsTyped,
     DataTyped, BreakInv, Held, CallInv
<1> QED
  BY <1>3, <1>4, <1>5, <1>6, <1>7, <1>8, <1>9, <1>10, <1>11 DEF TriageInv

\* A step is refused only when no workload is paused, or for a fault.
LEMMA ServerRefusesKept ==
  ASSUME TriageInv, ServerRefuses
  PROVE  TriageInv'
<1>0. Typed /\ FlagsTyped /\ DataTyped /\ EndInv /\ ArmsInv /\ CountInv /\ CallInv /\ BreakInv /\ RearmInv /\ FaultInv /\ LossInv
  BY TypeSplit DEF TriageInv
<1>r. PICK r : r = Head(inv)
  OBVIOUS
<1>c. PICK c : c = Completes(r.who, "error")
  OBVIOUS
<1>1. /\ inv # <<>> /\ r = Head(inv)
      /\ inv' = Tail(inv) /\ wire' = Append(wire, c)
      /\ fault' \in BOOLEAN /\ (fault' <=> fault \/ workload = "paused")
      /\ UNCHANGED <<rearm, accepting, phaseValue, stopReason, evidenceLost, observed, exact, unresolved,
         truncated, sessionObserved, breakInArm, strays, rearms, finishing, shutdownRelease, f,
         window, paused, queue, h, task, tries, hub, reply, lookup, link, registration, workload,
         writes, missed>>
  BY <1>0, <1>r, <1>c DEF ServerRefuses, FlagsTyped, verdict, counts, session, shutdown, reattach, calls,
     server, seen, Collector, ServerRest
<1>2. /\ r \in Invocation /\ inv' \in Seq(Invocation)
      /\ \A A : In(inv, A) <=> r \in A \/ In(inv', A)
      /\ \A A, B : Never(inv, A, B) => Never(inv', A, B) /\ (r \in A => ~In(inv', B))
  BY <1>0, <1>1, Taken DEF DataTyped
<1>a. \/ r.who = "H" /\ r \in Asks("H") /\ r \notin Asks("F")
      \/ r.who = "F" /\ r.step = "release" /\ r \in Asks("F") /\ r \notin Asks("H")
  BY <1>2, Requests
<1>k. /\ c \in Message /\ c \notin Breaks /\ c \notin Detaches /\ c \notin Fatals
      /\ \A v, answers : c \in Answers(v, answers) <=> v = r.who /\ "error" \in answers
  BY <1>a, <1>c, Completed DEF Either
<1>w. /\ wire' \in Seq(Message)
      /\ \A A : In(wire', A) <=> In(wire, A) \/ c \in A
      /\ \A A, B : Never(wire, A, B) /\ (c \in B => ~In(wire, A)) => Never(wire', A, B)
  BY <1>0, <1>1, <1>k, Sent DEF DataTyped
<1>n. In(inv, Asks(r.who)) /\ ~In(inv', Asks(r.who)) /\ ~In(wire, Answers(r.who, Either))
      /\ \A a \in Either : ~In(wire, Answers(r.who, {a}))
  BY <1>0, <1>2, <1>a, AnAnswer DEF CallInv
<1>3. Typed'
  <2>1. FlagsTyped'
    BY <1>0, <1>1, <1>2 DEF FlagsTyped
  <2>2. DataTyped'
    BY <1>0, <1>1, <1>2, <1>a, <1>k, <1>w, <1>n DEF DataTyped
  <2> QED
    BY <2>1, <2>2, TypeSplit
<1>4. EndInv'
  BY <1>0, <1>1, <1>2, <1>a, <1>k, <1>w, <1>n DEF EndInv, Terminal, FlagsTyped, DataTyped, Either
<1>5. ArmsInv'
  BY <1>0, <1>1, <1>2, <1>a, <1>k, <1>w, <1>n DEF ArmsInv, Terminal, FlagsTyped, DataTyped
<1>6. CountInv'
  BY <1>0, <1>1, <1>2, <1>a, <1>k, <1>w, <1>n DEF CountInv, Terminal, FlagsTyped, DataTyped
<1>7. CallInv'
  BY <1>0, <1>1, <1>2, <1>a, <1>k, <1>w, <1>n DEF CallInv, FlagsTyped, DataTyped, Either
<1>8. BreakInv'
  BY <1>0, <1>1, <1>2, <1>a, <1>k, <1>w, <1>n DEF BreakInv, Broken, Ended, Held, Refused, FlagsTyped,
     DataTyped, CallInv, Either
<1>9. RearmInv'
  BY <1>0, <1>1, <1>2, <1>a, <1>k, <1>w, <1>n DEF RearmInv, Broken, Ended, Terminal, FlagsTyped, DataTyped
<1>10. FaultInv'
  BY <1>0, <1>1, <1>2, <1>a, <1>k, <1>w, <1>n DEF FaultInv, CalmInv, Broken, Refused, Released, Terminal,
     FailsForAReason, FlagsTyped, DataTyped, CallInv, BreakInv, Held
<1>11. LossInv'
  BY <1>0, <1>1, <1>2, <1>a, <1>k, <1>w, <1>n DEF LossInv, WatchedInv, Due, Terminal, FlagsTyped,
     DataTyped, BreakInv, Held, CallInv
<1> QED
  BY <1>3, <1>4, <1>5, <1>6, <1>7, <1>8, <1>9, <1>10, <1>11 DEF TriageInv

----------------------------------------------------------------------------
(* finish() *)

LEMMA FinishKept ==
  ASSUME TriageInv, Finish
  PROVE  TriageInv'
<1>0. Typed /\ FlagsTyped /\ DataTyped /\ EndInv /\ ArmsInv /\ CountInv /\ CallInv /\ BreakInv /\ RearmInv /\ FaultInv /\ LossInv
  BY TypeSplit DEF TriageInv
<1>1. /\ f = "no" /\ f' = "awaitRearm" /\ finishing' = TRUE /\ window' = writes
      /\ task' = [g \in Generations |-> IF task[g] = "waiting" THEN "over" ELSE task[g]]
      /\ UNCHANGED <<rearm, accepting, phaseValue, stopReason, evidenceLost, observed, exact, unresolved,
         truncated, sessionObserved, breakInArm, strays, rearms, shutdownRelease, paused, queue, h,
         tries, hub, reply, inv, wire, lookup, link, registration, workload, writes, missed, fault>>
  BY <1>0 DEF Finish, FinishRest, verdict, counts, session, shutdown, reattach, calls, server, seen
<1>3. Typed'
  <2>1. FlagsTyped'
    BY <1>0, <1>1 DEF FlagsTyped
  <2>2. DataTyped'
    BY <1>0, <1>1 DEF DataTyped
  <2> QED
    BY <2>1, <2>2, TypeSplit
<1>4. EndInv'
  BY <1>0, <1>1 DEF EndInv, Terminal, FlagsTyped, DataTyped
<1>5. ArmsInv'
  BY <1>0, <1>1 DEF ArmsInv, Terminal, FlagsTyped, DataTyped
<1>6. CountInv'
  BY <1>0, <1>1 DEF CountInv, Terminal, FlagsTyped, DataTyped
<1>7. CallInv'
  BY <1>0, <1>1 DEF CallInv, FlagsTyped, DataTyped
<1>8. BreakInv'
  BY <1>0, <1>1 DEF BreakInv, Broken, Ended, Held, Refused, FlagsTyped, DataTyped
<1>9. RearmInv'
  BY <1>0, <1>1 DEF RearmInv, Broken, Ended, Terminal, FlagsTyped, DataTyped
<1>10. FaultInv'
  BY <1>0, <1>1 DEF FaultInv, CalmInv, Broken, Refused, Released, Terminal, FailsForAReason, FlagsTyped,
     DataTyped
<1>11. LossInv'
  BY <1>0, <1>1, NoneBefore DEF LossInv, WatchedInv, Due, Terminal, FlagsTyped, DataTyped, EndInv,
     CallInv, BreakInv
<1> QED
  BY <1>3, <1>4, <1>5, <1>6, <1>7, <1>8, <1>9, <1>10, <1>11 DEF TriageInv

LEMMA ShutdownUnasked ==
  ASSUME TriageInv, ReleaseForShutdown, ~(accepting /\ ~Terminal /\ hub)
  PROVE  TriageInv'
<1>0. Typed /\ FlagsTyped /\ DataTyped /\ EndInv /\ ArmsInv /\ CountInv /\ CallInv /\ BreakInv /\ RearmInv /\ FaultInv /\ LossInv
  BY TypeSplit DEF TriageInv
<1>1. /\ f = "awaitRearm" /\ f' = "draining" /\ shutdownRelease' = "false"
      /\ ~(accepting /\ ~Terminal /\ hub)
      /\ UNCHANGED <<rearm, accepting, phaseValue, stopReason, evidenceLost, observed, exact, unresolved,
         truncated, sessionObserved, breakInArm, strays, rearms, finishing, window, paused, queue,
         h, task, tries, hub, reply, inv, wire, lookup, link, registration, workload, writes,
         missed, fault>>
  BY <1>0 DEF ReleaseForShutdown, FinishRest, verdict, counts, session, shutdown, reattach, calls,
     server, seen
<1>2. \A g \in Generations : task[g] # "authorizing"
  <2> SUFFICES ASSUME NEW g \in Generations, task[g] = "authorizing" PROVE FALSE
    OBVIOUS
  <2>1. g = strays /\ Attaching(g)
    BY <1>0 DEF RearmInv, Attaching
  <2>2. \A later \in Generations : later > g => task[later] = "none"
    BY <1>0, <2>1 DEF ArmsInv
  <2> QED
    BY <2>1, <2>2 DEF ReleaseForShutdown
<1>3. Typed'
  <2>1. FlagsTyped'
    BY <1>0, <1>1 DEF FlagsTyped
  <2>2. DataTyped'
    BY <1>0, <1>1 DEF DataTyped
  <2> QED
    BY <2>1, <2>2, TypeSplit
<1>4. EndInv'
  BY <1>0, <1>1 DEF EndInv, Terminal, FlagsTyped, DataTyped
<1>5. ArmsInv'
  BY <1>0, <1>1 DEF ArmsInv, Terminal, FlagsTyped, DataTyped
<1>6. CountInv'
  BY <1>0, <1>1 DEF CountInv, Terminal, FlagsTyped, DataTyped
<1>7. CallInv'
  BY <1>0, <1>1 DEF CallInv, FlagsTyped, DataTyped
<1>8. BreakInv'
  BY <1>0, <1>1 DEF BreakInv, Broken, Ended, Held, Refused, FlagsTyped, DataTyped
<1>9. RearmInv'
  BY <1>0, <1>1, <1>2 DEF RearmInv, Broken, Ended, Terminal, FlagsTyped, DataTyped
<1>10. FaultInv'
  BY <1>0, <1>1, AnAnswer DEF FaultInv, CalmInv, Broken, Refused, Released, Terminal, FailsForAReason,
     FlagsTyped, DataTyped, CallInv
<1>11. LossInv'
  BY <1>0, <1>1, Nothing DEF LossInv, WatchedInv, Due, Terminal, FlagsTyped, DataTyped, EndInv, CallInv
<1> QED
  BY <1>3, <1>4, <1>5, <1>6, <1>7, <1>8, <1>9, <1>10, <1>11 DEF TriageInv

\* finish() asks for its release once, behind whatever the chain asked for before.
LEMMA ShutdownAsked ==
  ASSUME TriageInv, ReleaseForShutdown, accepting /\ ~Terminal /\ hub
  PROVE  TriageInv'
<1>0. Typed /\ FlagsTyped /\ DataTyped /\ EndInv /\ ArmsInv /\ CountInv /\ CallInv /\ BreakInv /\ RearmInv /\ FaultInv /\ LossInv
  BY TypeSplit DEF TriageInv
<1>r. PICK r : r = [who |-> "F", step |-> "release"]
  OBVIOUS
<1>k. r \in Invocation /\ r \in Asks("F") /\ r \notin Asks("H")
  BY <1>r, Requests
<1>1. /\ hub /\ f = "awaitRearm" /\ f' = "releasing" /\ shutdownRelease' = "pending"
      /\ inv' = Append(inv, r) /\ reply' = [reply EXCEPT !["F"] = "pending"]
      /\ UNCHANGED <<rearm, accepting, phaseValue, stopReason, evidenceLost, observed, exact, unresolved,
         truncated, sessionObserved, breakInArm, strays, rearms, finishing, window, paused, queue,
         h, task, tries, hub, wire, lookup, link, registration, workload, writes, missed, fault>>
  BY <1>0, <1>r DEF ReleaseForShutdown, Invoke, FinishRest, verdict, counts, session, shutdown, reattach,
     calls, server, seen
<1>2. /\ inv' \in Seq(Invocation)
      /\ \A A : In(inv', A) <=> In(inv, A) \/ r \in A
      /\ \A A, B : Never(inv, A, B) /\ (r \in B => ~In(inv, A)) => Never(inv', A, B)
  BY <1>0, <1>1, <1>k, Sent DEF DataTyped
<1>a. ~In(inv, Asks("F")) /\ ~In(wire, Answers("F", Either)) /\ ~In(wire, Answers("F", {"ok"})) /\ reply["F"] = "none"
  BY <1>0, <1>1, AnAnswer DEF CallInv, Either
<1>3. Typed'
  <2>1. FlagsTyped'
    BY <1>0, <1>1, <1>2 DEF FlagsTyped
  <2>2. DataTyped'
    BY <1>0, <1>1, <1>2, <1>k, <1>a DEF DataTyped
  <2> QED
    BY <2>1, <2>2, TypeSplit
<1>4. EndInv'
  BY <1>0, <1>1, <1>2, <1>k, <1>a DEF EndInv, Terminal, FlagsTyped, DataTyped
<1>5. ArmsInv'
  BY <1>0, <1>1, <1>2, <1>k, <1>a DEF ArmsInv, Terminal, FlagsTyped, DataTyped
<1>6. CountInv'
  BY <1>0, <1>1, <1>2, <1>k, <1>a DEF CountInv, Terminal, FlagsTyped, DataTyped
<1>7. CallInv'
  BY <1>0, <1>1, <1>2, <1>k, <1>a DEF CallInv, FlagsTyped, DataTyped
<1>8. BreakInv'
  BY <1>0, <1>1, <1>2, <1>k, <1>a DEF BreakInv, Broken, Ended, Held, Refused, FlagsTyped, DataTyped
<1>9. RearmInv'
  BY <1>0, <1>1, <1>2, <1>k, <1>a DEF RearmInv, Broken, Ended, Terminal, FlagsTyped, DataTyped
<1>10. FaultInv'
  BY <1>0, <1>1, <1>2, <1>k, <1>a DEF FaultInv, CalmInv, Broken, Refused, Released, Terminal,
     FailsForAReason, FlagsTyped, DataTyped, CallInv
<1>11. LossInv'
  BY <1>0, <1>1, <1>2, <1>k, <1>a DEF LossInv, WatchedInv, Due, Terminal, FlagsTyped, DataTyped
<1> QED
  BY <1>3, <1>4, <1>5, <1>6, <1>7, <1>8, <1>9, <1>10, <1>11 DEF TriageInv

LEMMA ShutdownReleasedKept ==
  ASSUME TriageInv, ShutdownReleased
  PROVE  TriageInv'
<1>0. Typed /\ FlagsTyped /\ DataTyped /\ EndInv /\ ArmsInv /\ CountInv /\ CallInv /\ BreakInv /\ RearmInv /\ FaultInv /\ LossInv
  BY TypeSplit DEF TriageInv
<1>1. /\ f = "releasing" /\ f' = "draining" /\ reply["F"] \in {"ok", "error"}
      /\ shutdownRelease' = IF reply["F"] = "ok" THEN "true" ELSE "false"
      /\ UNCHANGED <<rearm, accepting, phaseValue, stopReason, evidenceLost, observed, exact, unresolved,
         truncated, sessionObserved, breakInArm, strays, rearms, finishing, window, paused, queue,
         h, task, tries, hub, reply, inv, wire, lookup, link, registration, workload, writes,
         missed, fault>>
  BY <1>0 DEF ShutdownReleased, FinishRest, verdict, counts, session, shutdown, reattach, calls, server, seen
<1>3. Typed'
  <2>1. FlagsTyped'
    BY <1>0, <1>1 DEF FlagsTyped
  <2>2. DataTyped'
    BY <1>0, <1>1 DEF DataTyped
  <2> QED
    BY <2>1, <2>2, TypeSplit
<1>4. EndInv'
  BY <1>0, <1>1 DEF EndInv, Terminal, FlagsTyped, DataTyped
<1>5. ArmsInv'
  BY <1>0, <1>1 DEF ArmsInv, Terminal, FlagsTyped, DataTyped
<1>6. CountInv'
  BY <1>0, <1>1 DEF CountInv, Terminal, FlagsTyped, DataTyped
<1>7. CallInv'
  BY <1>0, <1>1 DEF CallInv, FlagsTyped, DataTyped
<1>8. BreakInv'
  BY <1>0, <1>1 DEF BreakInv, Broken, Ended, Held, Refused, FlagsTyped, DataTyped
<1>9. RearmInv'
  BY <1>0, <1>1 DEF RearmInv, Broken, Ended, Terminal, FlagsTyped, DataTyped
<1>10. FaultInv'
  BY <1>0, <1>1 DEF FaultInv, CalmInv, Broken, Refused, Released, Terminal, FailsForAReason, FlagsTyped,
     DataTyped, CallInv
<1>11. LossInv'
  BY <1>0, <1>1 DEF LossInv, WatchedInv, Due, Terminal, FlagsTyped, DataTyped
<1> QED
  BY <1>3, <1>4, <1>5, <1>6, <1>7, <1>8, <1>9, <1>10, <1>11 DEF TriageInv

\* finish() has handled every event when it writes its report.
LEMMA DrainedKept ==
  ASSUME TriageInv, Drained
  PROVE  TriageInv'
<1>0. Typed /\ FlagsTyped /\ DataTyped /\ EndInv /\ ArmsInv /\ CountInv /\ CallInv /\ BreakInv /\ RearmInv /\ FaultInv /\ LossInv
  BY TypeSplit DEF TriageInv
<1>1. /\ f = "draining" /\ h = "idle" /\ queue = <<>> /\ accepting' = FALSE /\ hub' = FALSE
      /\ stopReason' = IF stopReason = "null" THEN "finished" ELSE stopReason
      /\ phaseValue' = IF phaseValue = "failed" THEN phaseValue ELSE "stopped"
      /\ evidenceLost' \in BOOLEAN /\ (evidenceLost => evidenceLost')
      /\ f' = IF hub THEN "stopping" ELSE "done"
      /\ UNCHANGED <<rearm, observed, exact, unresolved, truncated, sessionObserved, breakInArm, strays,
         rearms, finishing, shutdownRelease, window, paused, queue, h, task, tries, reply, inv,
         wire, lookup, link, registration, workload, writes, missed, fault>>
  BY <1>0 DEF Drained, FinishRest, FlagsTyped, verdict, counts, session, shutdown, reattach, calls,
     server, seen
<1>3. Typed'
  <2>1. FlagsTyped'
    BY <1>0, <1>1 DEF FlagsTyped
  <2>2. DataTyped'
    BY <1>0, <1>1 DEF DataTyped
  <2> QED
    BY <2>1, <2>2, TypeSplit
<1>4. EndInv'
  BY <1>0, <1>1 DEF EndInv, Terminal, FlagsTyped, DataTyped
<1>5. ArmsInv'
  BY <1>0, <1>1 DEF ArmsInv, Terminal, FlagsTyped, DataTyped
<1>6. CountInv'
  BY <1>0, <1>1 DEF CountInv, Terminal, FlagsTyped, DataTyped
<1>7. CallInv'
  BY <1>0, <1>1 DEF CallInv, FlagsTyped, DataTyped, EndInv
<1>8. BreakInv'
  BY <1>0, <1>1 DEF BreakInv, Broken, Ended, Held, Refused, FlagsTyped, DataTyped
<1>9. RearmInv'
  BY <1>0, <1>1 DEF RearmInv, Broken, Ended, Terminal, FlagsTyped, DataTyped, EndInv
<1>10. FaultInv'
  BY <1>0, <1>1 DEF FaultInv, CalmInv, Broken, Refused, Released, Terminal, FailsForAReason, FlagsTyped,
     DataTyped
<1>11. LossInv'
  BY <1>0, <1>1, Nothing DEF LossInv, WatchedInv, Due, Terminal, FlagsTyped, DataTyped, EndInv, CallInv
<1> QED
  BY <1>3, <1>4, <1>5, <1>6, <1>7, <1>8, <1>9, <1>10, <1>11 DEF TriageInv

LEMMA FinishedKept ==
  ASSUME TriageInv, Finished
  PROVE  TriageInv'
<1>0. Typed /\ FlagsTyped /\ DataTyped /\ EndInv /\ ArmsInv /\ CountInv /\ CallInv /\ BreakInv /\ RearmInv /\ FaultInv /\ LossInv
  BY TypeSplit DEF TriageInv
<1>1. /\ f = "stopping" /\ f' = "done"
      /\ link' = "down" /\ inv' = <<>> /\ wire' = <<>> /\ lookup' = FALSE /\ registration' = "none" /\
         workload' = "none"
      /\ reply' = [w \in {"H", "F", "R"} |-> IF reply[w] \in {"pending", "registered"} THEN "error" ELSE
         reply[w]]
      /\ UNCHANGED <<rearm, accepting, phaseValue, stopReason, evidenceLost, observed, exact, unresolved,
         truncated, sessionObserved, breakInArm, strays, rearms, finishing, shutdownRelease, window,
         paused, queue, h, task, tries, hub, writes, missed, fault>>
  BY <1>0 DEF Finished, FinishRest, LinkDown, DataTyped, verdict, counts, session, shutdown, reattach,
     calls, server, seen
<1>2. \A A, B : ~In(wire', A) /\ Never(wire', A, B) /\ ~In(inv', A) /\ Never(inv', A, B)
  BY <1>1, Nothing
<1>3. Typed'
  <2>1. FlagsTyped'
    BY <1>0, <1>1, <1>2 DEF FlagsTyped
  <2>2. DataTyped'
    BY <1>0, <1>1, <1>2 DEF DataTyped, EndInv
  <2> QED
    BY <2>1, <2>2, TypeSplit
<1>4. EndInv'
  BY <1>0, <1>1, <1>2 DEF EndInv, Terminal, FlagsTyped, DataTyped
<1>5. ArmsInv'
  BY <1>0, <1>1, <1>2 DEF ArmsInv, Terminal, FlagsTyped, DataTyped, EndInv
<1>6. CountInv'
  BY <1>0, <1>1, <1>2 DEF CountInv, Terminal, FlagsTyped, DataTyped, EndInv
<1>7. CallInv'
  BY <1>0, <1>1, <1>2 DEF CallInv, FlagsTyped, DataTyped, EndInv
<1>8. BreakInv'
  BY <1>0, <1>1, <1>2 DEF BreakInv, Broken, Ended, Held, Refused, FlagsTyped, DataTyped, EndInv
<1>9. RearmInv'
  BY <1>0, <1>1, <1>2 DEF RearmInv, Broken, Ended, Terminal, FlagsTyped, DataTyped, EndInv
<1>10. FaultInv'
  BY <1>0, <1>1, <1>2 DEF FaultInv, CalmInv, Broken, Refused, Released, Terminal, FailsForAReason,
     FlagsTyped, DataTyped, EndInv
<1>11. LossInv'
  BY <1>0, <1>1, <1>2 DEF LossInv, WatchedInv, Due, Terminal, FlagsTyped, DataTyped, EndInv
<1> QED
  BY <1>3, <1>4, <1>5, <1>6, <1>7, <1>8, <1>9, <1>10, <1>11 DEF TriageInv

----------------------------------------------------------------------------
(* reattach() *)

LEMMA ReattachSuperseded ==
  ASSUME TriageInv, NEW g \in Generations, Reattach(g), Superseded(g)
  PROVE  TriageInv'
<1>0. Typed /\ FlagsTyped /\ DataTyped /\ EndInv /\ ArmsInv /\ CountInv /\ CallInv /\ BreakInv /\ RearmInv /\ FaultInv /\ LossInv
  BY TypeSplit DEF TriageInv
<1>1. /\ task[g] = "waiting" /\ task' = [task EXCEPT ![g] = "over"]
      /\ UNCHANGED <<rearm, accepting, phaseValue, stopReason, evidenceLost, observed, exact, unresolved,
         truncated, sessionObserved, breakInArm, strays, rearms, finishing, shutdownRelease, f,
         window, paused, queue, h, tries, hub, reply, inv, wire, lookup, link, registration,
         workload, writes, missed, fault>>
  BY <1>0 DEF Reattach, RearmRest, verdict, counts, session, shutdown, reattach, calls, server, seen
<1>3. Typed'
  <2>1. FlagsTyped'
    BY <1>0, <1>1 DEF FlagsTyped
  <2>2. DataTyped'
    BY <1>0, <1>1 DEF DataTyped
  <2> QED
    BY <2>1, <2>2, TypeSplit
<1>4. EndInv'
  BY <1>0, <1>1 DEF EndInv, Terminal, FlagsTyped, DataTyped
<1>5. ArmsInv'
  BY <1>0, <1>1 DEF ArmsInv, Terminal, FlagsTyped, DataTyped
<1>6. CountInv'
  BY <1>0, <1>1 DEF CountInv, Terminal, FlagsTyped, DataTyped
<1>7. CallInv'
  BY <1>0, <1>1 DEF CallInv, FlagsTyped, DataTyped
<1>8. BreakInv'
  BY <1>0, <1>1 DEF BreakInv, Broken, Ended, Held, Refused, FlagsTyped, DataTyped
<1>9. RearmInv'
  BY <1>0, <1>1 DEF RearmInv, Broken, Ended, Terminal, FlagsTyped, DataTyped
<1>10. FaultInv'
  BY <1>0, <1>1 DEF FaultInv, CalmInv, Broken, Refused, Released, Terminal, FailsForAReason, FlagsTyped,
     DataTyped
<1>11. LossInv'
  BY <1>0, <1>1 DEF LossInv, WatchedInv, Due, Terminal, FlagsTyped, DataTyped
<1> QED
  BY <1>3, <1>4, <1>5, <1>6, <1>7, <1>8, <1>9, <1>10, <1>11 DEF TriageInv

\* The wait ends in the quiet between two arms: idle chain, empty queue, no connection.
LEMMA ReattachKept ==
  ASSUME TriageInv, NEW g \in Generations, Reattach(g), ~Superseded(g)
  PROVE  TriageInv'
<1>0. Typed /\ FlagsTyped /\ DataTyped /\ EndInv /\ ArmsInv /\ CountInv /\ CallInv /\ BreakInv /\ RearmInv /\ FaultInv /\ LossInv
  BY TypeSplit DEF TriageInv
<1>1. /\ task[g] = "waiting" /\ queue = <<>> /\ ~finishing /\ ~Terminal /\ g = strays
      /\ task' = [task EXCEPT ![g] = "authorizing"] /\ breakInArm' = FALSE /\ phaseValue' = "arming"
      /\ UNCHANGED <<rearm, accepting, stopReason, evidenceLost, observed, exact, unresolved, truncated,
         sessionObserved, strays, rearms, finishing, shutdownRelease, f, window, paused, queue, h,
         tries, hub, reply, inv, wire, lookup, link, registration, workload, writes, missed, fault>>
  BY <1>0 DEF Reattach, RearmRest, Superseded, verdict, counts, session, shutdown, reattach, calls,
     server, seen
<1>b. phaseValue = "rearming" /\ h = "idle" /\ link = "down" /\ f = "no" /\ ~paused /\ strays # 0 /\ evidenceLost
  BY <1>0, <1>1 DEF RearmInv, EndInv, CountInv, LossInv, WatchedInv, Terminal, FlagsTyped, DataTyped, Generations
<1>3. Typed'
  <2>1. FlagsTyped'
    BY <1>0, <1>1 DEF FlagsTyped
  <2>2. DataTyped'
    BY <1>0, <1>1, <1>b DEF DataTyped
  <2> QED
    BY <2>1, <2>2, TypeSplit
<1>4. EndInv'
  BY <1>0, <1>1, <1>b DEF EndInv, Terminal, FlagsTyped, DataTyped
<1>5. ArmsInv'
  BY <1>0, <1>1, <1>b DEF ArmsInv, Terminal, FlagsTyped, DataTyped
<1>6. CountInv'
  BY <1>0, <1>1, <1>b DEF CountInv, Terminal, FlagsTyped, DataTyped
<1>7. CallInv'
  BY <1>0, <1>1, <1>b DEF CallInv, FlagsTyped, DataTyped
<1>8. BreakInv'
  BY <1>0, <1>1, <1>b DEF BreakInv, Broken, Ended, Held, Refused, FlagsTyped, DataTyped
<1>9. RearmInv'
  BY <1>0, <1>1, <1>b DEF RearmInv, Broken, Ended, Terminal, FlagsTyped, DataTyped
<1>10. FaultInv'
  BY <1>0, <1>1, <1>b DEF FaultInv, CalmInv, Broken, Refused, Released, Terminal, FailsForAReason,
     FlagsTyped, DataTyped
<1>11. LossInv'
  BY <1>0, <1>1, <1>b DEF LossInv, WatchedInv, Due, Terminal, FlagsTyped, DataTyped
<1> QED
  BY <1>3, <1>4, <1>5, <1>6, <1>7, <1>8, <1>9, <1>10, <1>11 DEF TriageInv

\* An attach is asked for in the quiet between two arms: idle chain, empty queue, no connection.
LEMMA ConnectKept ==
  ASSUME TriageInv, NEW g \in Generations, Connect(g)
  PROVE  TriageInv'
<1>0. Typed /\ FlagsTyped /\ DataTyped /\ EndInv /\ ArmsInv /\ CountInv /\ CallInv /\ BreakInv /\ RearmInv /\ FaultInv /\ LossInv
  BY TypeSplit DEF TriageInv
<1>1. /\ task[g] = "authorizing"
      /\ task' = [task EXCEPT ![g] = "attaching"]
      /\ hub' = TRUE /\ link' = "up" /\ inv' = <<>> /\ wire' = <<>> /\ lookup' = FALSE
      /\ reply' = [reply EXCEPT !["R"] = "pending"]
      /\ UNCHANGED <<rearm, accepting, phaseValue, stopReason, evidenceLost, observed, exact, unresolved,
         truncated, sessionObserved, breakInArm, strays, rearms, finishing, shutdownRelease, f,
         window, paused, queue, h, tries, registration, workload, writes, missed, fault>>
  BY <1>0 DEF Connect, RearmRest, verdict, counts, session, shutdown, reattach, calls, server, seen
<1>q. g = strays /\ ~Terminal /\ queue = <<>>
  BY <1>0, <1>1 DEF RearmInv
<1>2. /\ \A A, B : ~In(wire', A) /\ Never(wire', A, B) /\ ~In(inv', A) /\ Never(inv', A, B)
      /\ \A A, B : ~In(queue, A) /\ Never(queue, A, B)
  BY <1>1, <1>q, Nothing
<1>b. h = "idle" /\ link = "down" /\ registration = "none" /\ f \in {"no", "awaitRearm"} /\ ~paused
      /\ accepting /\ strays # 0 /\ reply["F"] = "none" /\ shutdownRelease = "null" /\ evidenceLost
  BY <1>0, <1>1, <1>q DEF RearmInv, EndInv, CountInv, CallInv, LossInv, WatchedInv, Terminal, FlagsTyped,
     DataTyped, Generations
<1>3. Typed'
  <2>1. FlagsTyped'
    BY <1>0, <1>1, <1>2 DEF FlagsTyped
  <2>2. DataTyped'
    BY <1>0, <1>1, <1>2, <1>b, <1>q DEF DataTyped
  <2> QED
    BY <2>1, <2>2, TypeSplit
<1>4. EndInv'
  BY <1>0, <1>1, <1>2, <1>b, <1>q DEF EndInv, Terminal, FlagsTyped, DataTyped
<1>5. ArmsInv'
  BY <1>0, <1>1, <1>2, <1>b, <1>q DEF ArmsInv, Terminal, FlagsTyped, DataTyped
<1>6. CountInv'
  BY <1>0, <1>1, <1>2, <1>b, <1>q DEF CountInv, Terminal, FlagsTyped, DataTyped
<1>7. CallInv'
  BY <1>0, <1>1, <1>2, <1>b, <1>q DEF CallInv, FlagsTyped, DataTyped
<1>8. BreakInv'
  BY <1>0, <1>1, <1>2, <1>b, <1>q DEF BreakInv, Broken, Ended, Held, Refused, FlagsTyped, DataTyped
<1>9. RearmInv'
  BY <1>0, <1>1, <1>2, <1>b, <1>q DEF RearmInv, Broken, Ended, Terminal, FlagsTyped, DataTyped
<1>10. FaultInv'
  BY <1>0, <1>1, <1>2, <1>b, <1>q DEF FaultInv, CalmInv, Broken, Refused, Released, Terminal, FailsForAReason,
     FlagsTyped, DataTyped
<1>11. LossInv'
  BY <1>0, <1>1, <1>2, <1>b, <1>q DEF LossInv, WatchedInv, Due, Terminal, FlagsTyped, DataTyped
<1> QED
  BY <1>3, <1>4, <1>5, <1>6, <1>7, <1>8, <1>9, <1>10, <1>11 DEF TriageInv

LEMMA UnauthorizedSuperseded ==
  ASSUME TriageInv, NEW g \in Generations, AuthorizationFails(g), Superseded(g)
  PROVE  TriageInv'
<1>0. Typed /\ FlagsTyped /\ DataTyped /\ EndInv /\ ArmsInv /\ CountInv /\ CallInv /\ BreakInv /\ RearmInv /\ FaultInv /\ LossInv
  BY TypeSplit DEF TriageInv
<1>1. /\ task[g] = "authorizing" /\ task' = [task EXCEPT ![g] = "over"] /\ fault' = TRUE
      /\ UNCHANGED <<rearm, accepting, phaseValue, stopReason, evidenceLost, observed, exact, unresolved,
         truncated, sessionObserved, breakInArm, strays, rearms, finishing, shutdownRelease, f,
         window, paused, queue, h, tries, hub, reply, inv, wire, lookup, link, registration,
         workload, writes, missed>>
  BY <1>0 DEF AuthorizationFails, GiveUpRearm, EndAs, verdict, counts, session, shutdown, reattach, calls, server, seen
<1>2. g = strays /\ h = "idle" /\ queue = <<>> /\ strays # 0 /\ evidenceLost
  BY <1>0, <1>1 DEF RearmInv, LossInv, WatchedInv, DataTyped, FlagsTyped, Generations
<1>3. Typed'
  <2>1. FlagsTyped'
    BY <1>0, <1>1, <1>2 DEF FlagsTyped
  <2>2. DataTyped'
    BY <1>0, <1>1, <1>2 DEF DataTyped
  <2> QED
    BY <2>1, <2>2, TypeSplit
<1>4. EndInv'
  BY <1>0, <1>1, <1>2 DEF EndInv, RearmInv, Terminal, FlagsTyped, DataTyped
<1>5. ArmsInv'
  BY <1>0, <1>1, <1>2 DEF ArmsInv, Terminal, FlagsTyped, DataTyped
<1>6. CountInv'
  BY <1>0, <1>1, <1>2 DEF CountInv, Terminal, FlagsTyped, DataTyped
<1>7. CallInv'
  BY <1>0, <1>1, <1>2 DEF CallInv, FlagsTyped, DataTyped
<1>8. BreakInv'
  BY <1>0, <1>1, <1>2 DEF BreakInv, Broken, Ended, Held, Refused, FlagsTyped, DataTyped
<1>9. RearmInv'
  BY <1>0, <1>1, <1>2 DEF RearmInv, Broken, Ended, Terminal, FlagsTyped, DataTyped
<1>10. FaultInv'
  BY <1>0, <1>1, <1>2 DEF FaultInv, FailsForAReason, FlagsTyped, DataTyped
<1>11. LossInv'
  BY <1>0, <1>1, <1>2 DEF LossInv, FlagsTyped
<1> QED
  BY <1>3, <1>4, <1>5, <1>6, <1>7, <1>8, <1>9, <1>10, <1>11 DEF TriageInv

\* Without an authorization the re-arm ends the capture.
LEMMA UnauthorizedForGood ==
  ASSUME TriageInv, NEW g \in Generations, AuthorizationFails(g), ~Superseded(g)
  PROVE  TriageInv'
<1>0. Typed /\ FlagsTyped /\ DataTyped /\ EndInv /\ ArmsInv /\ CountInv /\ CallInv /\ BreakInv /\ RearmInv /\ FaultInv /\ LossInv
  BY TypeSplit DEF TriageInv
<1>1. /\ task[g] = "authorizing" /\ task' = [task EXCEPT ![g] = "over"] /\ fault' = TRUE
      /\ accepting' = FALSE /\ phaseValue' = "failed" /\ stopReason' = "fatal"
      /\ evidenceLost' = TRUE /\ paused' = FALSE
      /\ UNCHANGED <<rearm, observed, exact, unresolved, truncated, sessionObserved, breakInArm, strays,
         rearms, finishing, shutdownRelease, f, window, queue, h, tries, hub, reply, inv, wire,
         lookup, link, registration, workload, writes, missed>>
  BY <1>0 DEF AuthorizationFails, GiveUpRearm, EndAs, verdict, counts, session, shutdown, reattach, calls, server, seen
<1>2. g = strays /\ h = "idle" /\ queue = <<>> /\ strays # 0 /\ evidenceLost
  BY <1>0, <1>1 DEF RearmInv, LossInv, WatchedInv, DataTyped, FlagsTyped, Generations
<1>3. Typed'
  <2>1. FlagsTyped'
    BY <1>0, <1>1, <1>2 DEF FlagsTyped
  <2>2. DataTyped'
    BY <1>0, <1>1, <1>2 DEF DataTyped
  <2> QED
    BY <2>1, <2>2, TypeSplit
<1>4. EndInv'
  BY <1>0, <1>1, <1>2 DEF EndInv, RearmInv, Terminal, FlagsTyped, DataTyped
<1>5. ArmsInv'
  BY <1>0, <1>1, <1>2 DEF ArmsInv, Terminal, FlagsTyped, DataTyped
<1>6. CountInv'
  BY <1>0, <1>1, <1>2 DEF CountInv, Terminal, FlagsTyped, DataTyped
<1>7. CallInv'
  BY <1>0, <1>1, <1>2 DEF CallInv, FlagsTyped, DataTyped
<1>8. BreakInv'
  BY <1>0, <1>1, <1>2 DEF BreakInv, Broken, Ended, Held, Refused, FlagsTyped, DataTyped
<1>9. RearmInv'
  BY <1>0, <1>1, <1>2 DEF RearmInv, Broken, Ended, Terminal, FlagsTyped, DataTyped
<1>10. FaultInv'
  BY <1>0, <1>1, <1>2 DEF FaultInv, FailsForAReason, FlagsTyped, DataTyped
<1>11. LossInv'
  BY <1>0, <1>1, <1>2 DEF LossInv, FlagsTyped
<1> QED
  BY <1>3, <1>4, <1>5, <1>6, <1>7, <1>8, <1>9, <1>10, <1>11 DEF TriageInv

LEMMA ReattachedKept ==
  ASSUME TriageInv, NEW g \in Generations, Reattached(g)
  PROVE  TriageInv'
<1>0. Typed /\ FlagsTyped /\ DataTyped /\ EndInv /\ ArmsInv /\ CountInv /\ CallInv /\ BreakInv /\ RearmInv /\ FaultInv /\ LossInv
  BY TypeSplit DEF TriageInv
<1>1. /\ task[g] = "attaching" /\ task' = [task EXCEPT ![g] = "over"]
      /\ rearms' = IF g = strays THEN rearms + 1 ELSE rearms
      /\ UNCHANGED <<rearm, accepting, phaseValue, stopReason, evidenceLost, observed, exact, unresolved,
         truncated, sessionObserved, breakInArm, strays, finishing, shutdownRelease, f, window,
         paused, queue, h, tries, hub, reply, inv, wire, lookup, link, registration, workload,
         writes, missed, fault>>
  BY <1>0 DEF Reattached, RearmRest, verdict, counts, session, shutdown, reattach, calls, server, seen
<1>3. Typed'
  <2>1. FlagsTyped'
    BY <1>0, <1>1 DEF FlagsTyped
  <2>2. DataTyped'
    BY <1>0, <1>1 DEF DataTyped, ArmsInv
  <2> QED
    BY <2>1, <2>2, TypeSplit
<1>4. EndInv'
  BY <1>0, <1>1 DEF EndInv, Terminal, FlagsTyped, DataTyped
<1>5. ArmsInv'
  BY <1>0, <1>1, TriageAssumption DEF ArmsInv, Terminal, FlagsTyped, DataTyped
<1>6. CountInv'
  BY <1>0, <1>1 DEF CountInv, Terminal, FlagsTyped, DataTyped
<1>7. CallInv'
  BY <1>0, <1>1 DEF CallInv, FlagsTyped, DataTyped
<1>8. BreakInv'
  BY <1>0, <1>1 DEF BreakInv, Broken, Ended, Held, Refused, FlagsTyped, DataTyped
<1>9. RearmInv'
  BY <1>0, <1>1 DEF RearmInv, Broken, Ended, Terminal, FlagsTyped, DataTyped
<1>10. FaultInv'
  BY <1>0, <1>1 DEF FaultInv, CalmInv, Broken, Refused, Released, Terminal, FailsForAReason, FlagsTyped,
     DataTyped
<1>11. LossInv'
  BY <1>0, <1>1 DEF LossInv, WatchedInv, Due, Terminal, FlagsTyped, DataTyped
<1> QED
  BY <1>3, <1>4, <1>5, <1>6, <1>7, <1>8, <1>9, <1>10, <1>11 DEF TriageInv

LEMMA OlderRejected ==
  ASSUME TriageInv, NEW g \in Generations, ReattachRejected(g), g # strays
  PROVE  TriageInv'
<1>0. Typed /\ FlagsTyped /\ DataTyped /\ EndInv /\ ArmsInv /\ CountInv /\ CallInv /\ BreakInv /\ RearmInv /\ FaultInv /\ LossInv
  BY TypeSplit DEF TriageInv
<1>1. /\ task[g] = "attaching" /\ task' = [task EXCEPT ![g] = "over"] /\ g # strays
      /\ UNCHANGED <<rearm, accepting, phaseValue, stopReason, evidenceLost, observed, exact, unresolved,
         truncated, sessionObserved, breakInArm, strays, rearms, finishing, shutdownRelease, f,
         window, paused, queue, h, tries, hub, reply, inv, wire, lookup, link, registration,
         workload, writes, missed, fault>>
  BY <1>0 DEF ReattachRejected, RearmRest, Superseded, verdict, counts, session, shutdown, reattach,
     calls, server, seen
<1>3. Typed'
  <2>1. FlagsTyped'
    BY <1>0, <1>1 DEF FlagsTyped
  <2>2. DataTyped'
    BY <1>0, <1>1 DEF DataTyped
  <2> QED
    BY <2>1, <2>2, TypeSplit
<1>4. EndInv'
  BY <1>0, <1>1 DEF EndInv, Terminal, FlagsTyped, DataTyped
<1>5. ArmsInv'
  BY <1>0, <1>1 DEF ArmsInv, Terminal, FlagsTyped, DataTyped
<1>6. CountInv'
  BY <1>0, <1>1 DEF CountInv, Terminal, FlagsTyped, DataTyped
<1>7. CallInv'
  BY <1>0, <1>1 DEF CallInv, FlagsTyped, DataTyped
<1>8. BreakInv'
  BY <1>0, <1>1 DEF BreakInv, Broken, Ended, Held, Refused, FlagsTyped, DataTyped
<1>9. RearmInv'
  BY <1>0, <1>1 DEF RearmInv, Broken, Ended, Terminal, FlagsTyped, DataTyped
<1>10. FaultInv'
  BY <1>0, <1>1 DEF FaultInv, CalmInv, Broken, Refused, Released, Terminal, FailsForAReason, FlagsTyped,
     DataTyped
<1>11. LossInv'
  BY <1>0, <1>1 DEF LossInv, WatchedInv, Due, Terminal, FlagsTyped, DataTyped
<1> QED
  BY <1>3, <1>4, <1>5, <1>6, <1>7, <1>8, <1>9, <1>10, <1>11 DEF TriageInv

LEMMA RejectedSuperseded ==
  ASSUME TriageInv, NEW g \in Generations, ReattachRejected(g), g = strays, Superseded(g)
  PROVE  TriageInv'
<1>0. Typed /\ FlagsTyped /\ DataTyped /\ EndInv /\ ArmsInv /\ CountInv /\ CallInv /\ BreakInv /\ RearmInv /\ FaultInv /\ LossInv
  BY TypeSplit DEF TriageInv
<1>1. /\ task[g] = "attaching" /\ g = strays /\ reply["R"] \in {"busy", "error"} /\ hub' = FALSE
      /\ link' = "down" /\ inv' = <<>> /\ wire' = <<>> /\ lookup' = FALSE /\ registration' = "none" /\
         workload' = "none"
      /\ reply' = [w \in {"H", "F", "R"} |-> IF reply[w] \in {"pending", "registered"} THEN "error" ELSE
         reply[w]]
      /\ task' = [task EXCEPT ![g] = "over"]
      /\ finishing \/ Terminal
      /\ UNCHANGED <<rearm, accepting, phaseValue, stopReason, evidenceLost, observed, exact, unresolved,
         truncated, sessionObserved, breakInArm, strays, rearms, finishing, shutdownRelease, f,
         window, paused, queue, h, tries, writes, missed, fault>>
  BY <1>0 DEF ReattachRejected, RearmRest, Superseded, LinkDown, DataTyped, verdict, counts, session,
     shutdown, reattach, calls, server, seen
<1>2. \A A, B : ~In(wire', A) /\ Never(wire', A, B) /\ ~In(inv', A) /\ Never(inv', A, B)
  BY <1>1, Nothing
<1>s. /\ reply["R"] = "busy" => ~Broken /\ h \in {"idle", "stopping"}
      /\ reply["R"] = "error" /\ ~fault /\ ~truncated => Terminal /\ h = "idle" /\ queue = <<>>
      /\ reply'["R"] \notin {"pending", "registered"}
  BY <1>0, <1>1 DEF RearmInv, FaultInv, CalmInv, DataTyped
<1>b. /\ Broken' => Broken
      /\ reply["R"] = "error" /\ ~fault /\ ~truncated => ~Broken'
  BY <1>1, <1>2, <1>s, Nothing DEF Broken
<1>h. ~Held' \/ h \in {"classifying", "awaitShutdown"}
  BY <1>1, <1>2 DEF Held
<1>3. Typed'
  <2>1. FlagsTyped'
    BY <1>0, <1>1, <1>2 DEF FlagsTyped
  <2>2. DataTyped'
    BY <1>0, <1>1, <1>2, <1>s, <1>b, <1>h DEF DataTyped
  <2> QED
    BY <2>1, <2>2, TypeSplit
<1>4. EndInv'
  BY <1>0, <1>1, <1>2, <1>s, <1>b, <1>h DEF EndInv, Terminal, FlagsTyped, DataTyped
<1>5. ArmsInv'
  BY <1>0, <1>1, <1>2, <1>s, <1>b, <1>h DEF ArmsInv, Terminal, FlagsTyped, DataTyped
<1>6. CountInv'
  BY <1>0, <1>1, <1>2, <1>s, <1>b, <1>h DEF CountInv, Terminal, FlagsTyped, DataTyped
<1>7. CallInv'
  BY <1>0, <1>1, <1>2, <1>s, <1>b, <1>h DEF CallInv, FlagsTyped, DataTyped
<1>8. BreakInv'
  BY <1>0, <1>1, <1>2, <1>s, <1>b, <1>h DEF BreakInv, Broken, Ended, Held, Refused, FlagsTyped, DataTyped
<1>9. RearmInv'
  BY <1>0, <1>1, <1>2, <1>s, <1>b, <1>h DEF RearmInv, Broken, Ended, Terminal, FlagsTyped, DataTyped
<1>10. FaultInv'
  BY <1>0, <1>1, <1>2, <1>s, <1>b, <1>h DEF FaultInv, CalmInv, Broken, Refused, Released, Terminal,
     FailsForAReason, FlagsTyped, DataTyped
<1>11. LossInv'
  BY <1>0, <1>1, <1>2, <1>s, <1>b, <1>h DEF LossInv, WatchedInv, Due, Terminal, FlagsTyped, DataTyped,
     Generations
<1> QED
  BY <1>3, <1>4, <1>5, <1>6, <1>7, <1>8, <1>9, <1>10, <1>11 DEF TriageInv

LEMMA RejectedRetried ==
  ASSUME TriageInv, NEW g \in Generations, ReattachRejected(g), ~Superseded(g), task'[g] = "waiting"
  PROVE  TriageInv'
<1>0. Typed /\ FlagsTyped /\ DataTyped /\ EndInv /\ ArmsInv /\ CountInv /\ CallInv /\ BreakInv /\ RearmInv /\ FaultInv /\ LossInv
  BY TypeSplit DEF TriageInv
<1>1. /\ task[g] = "attaching" /\ g = strays /\ reply["R"] \in {"busy", "error"} /\ hub' = FALSE
      /\ link' = "down" /\ inv' = <<>> /\ wire' = <<>> /\ lookup' = FALSE /\ registration' = "none" /\
         workload' = "none"
      /\ reply' = [w \in {"H", "F", "R"} |-> IF reply[w] \in {"pending", "registered"} THEN "error" ELSE
         reply[w]]
      /\ ~finishing /\ ~Terminal /\ reply["R"] = "busy" /\ tries[g] < MaxAttempts
      /\ task' = [task EXCEPT ![g] = "waiting"] /\ tries' = [tries EXCEPT ![g] = tries[g] + 1] /\ phaseValue'
         = "rearming"
      /\ UNCHANGED <<rearm, accepting, stopReason, evidenceLost, observed, exact, unresolved, truncated,
         sessionObserved, breakInArm, strays, rearms, finishing, shutdownRelease, f, window, paused,
         queue, h, writes, missed, fault>>
  BY <1>0 DEF ReattachRejected, RearmRest, Superseded, LinkDown, DataTyped, verdict, counts, session,
     shutdown, reattach, calls, server, seen
<1>2. \A A, B : ~In(wire', A) /\ Never(wire', A, B) /\ ~In(inv', A) /\ Never(inv', A, B)
  BY <1>1, Nothing
<1>s. /\ reply["R"] = "busy" => ~Broken /\ h \in {"idle", "stopping"}
      /\ reply["R"] = "error" /\ ~fault /\ ~truncated => Terminal /\ h = "idle" /\ queue = <<>>
      /\ reply'["R"] \notin {"pending", "registered"}
  BY <1>0, <1>1 DEF RearmInv, FaultInv, CalmInv, DataTyped
<1>b. /\ Broken' => Broken
      /\ reply["R"] = "error" /\ ~fault /\ ~truncated => ~Broken'
  BY <1>1, <1>2, <1>s, Nothing DEF Broken
<1>h. ~Held' \/ h \in {"classifying", "awaitShutdown"}
  BY <1>1, <1>2 DEF Held
<1>3. Typed'
  <2>1. FlagsTyped'
    BY <1>0, <1>1, <1>2 DEF FlagsTyped
  <2>2. DataTyped'
    BY <1>0, <1>1, <1>2, <1>s, <1>b, <1>h, TriageAssumption DEF DataTyped
  <2> QED
    BY <2>1, <2>2, TypeSplit
<1>4. EndInv'
  BY <1>0, <1>1, <1>2, <1>s, <1>b, <1>h DEF EndInv, Terminal, FlagsTyped, DataTyped
<1>5. ArmsInv'
  BY <1>0, <1>1, <1>2, <1>s, <1>b, <1>h DEF ArmsInv, Terminal, FlagsTyped, DataTyped
<1>6. CountInv'
  BY <1>0, <1>1, <1>2, <1>s, <1>b, <1>h DEF CountInv, Terminal, FlagsTyped, DataTyped
<1>7. CallInv'
  BY <1>0, <1>1, <1>2, <1>s, <1>b, <1>h DEF CallInv, FlagsTyped, DataTyped
<1>8. BreakInv'
  BY <1>0, <1>1, <1>2, <1>s, <1>b, <1>h DEF BreakInv, Broken, Ended, Held, Refused, FlagsTyped, DataTyped
<1>9. RearmInv'
  BY <1>0, <1>1, <1>2, <1>s, <1>b, <1>h DEF RearmInv, Broken, Ended, Terminal, FlagsTyped, DataTyped, EndInv
<1>10. FaultInv'
  BY <1>0, <1>1, <1>2, <1>s, <1>b, <1>h DEF FaultInv, CalmInv, Broken, Refused, Released, Terminal,
     FailsForAReason, FlagsTyped, DataTyped
<1>11. LossInv'
  BY <1>0, <1>1, <1>2, <1>s, <1>b, <1>h DEF LossInv, WatchedInv, Due, Terminal, FlagsTyped, DataTyped,
     Generations
<1> QED
  BY <1>3, <1>4, <1>5, <1>6, <1>7, <1>8, <1>9, <1>10, <1>11 DEF TriageInv

\* The capture fails: every attach attempt was refused, or there was a fault.
LEMMA RejectedForGood ==
  ASSUME TriageInv, NEW g \in Generations, ReattachRejected(g), ~Superseded(g), task'[g] # "waiting"
  PROVE  TriageInv'
<1>0. Typed /\ FlagsTyped /\ DataTyped /\ EndInv /\ ArmsInv /\ CountInv /\ CallInv /\ BreakInv /\ RearmInv /\ FaultInv /\ LossInv
  BY TypeSplit DEF TriageInv
<1>1. /\ task[g] = "attaching" /\ g = strays /\ reply["R"] \in {"busy", "error"} /\ hub' = FALSE
      /\ link' = "down" /\ inv' = <<>> /\ wire' = <<>> /\ lookup' = FALSE /\ registration' = "none" /\
         workload' = "none"
      /\ reply' = [w \in {"H", "F", "R"} |-> IF reply[w] \in {"pending", "registered"} THEN "error" ELSE
         reply[w]]
      /\ ~finishing /\ ~Terminal /\ (reply["R"] = "busy" => tries[g] >= MaxAttempts)
      /\ task' = [task EXCEPT ![g] = "over"] /\ accepting' = FALSE /\ phaseValue' = "failed" /\ stopReason' =
         "fatal"
      /\ evidenceLost' = TRUE /\ paused' = FALSE
      /\ UNCHANGED <<rearm, observed, exact, unresolved, truncated, sessionObserved, breakInArm, strays,
         rearms, finishing, shutdownRelease, f, window, queue, h, tries, writes, missed, fault>>
  BY <1>0 DEF ReattachRejected, RearmRest, Superseded, EndAs, GiveUpRearm, LinkDown, DataTyped, verdict,
     counts, session, shutdown, reattach, calls, server, seen
<1>2. \A A, B : ~In(wire', A) /\ Never(wire', A, B) /\ ~In(inv', A) /\ Never(inv', A, B)
  BY <1>1, Nothing
<1>s. /\ reply["R"] = "busy" => ~Broken /\ h \in {"idle", "stopping"}
      /\ reply["R"] = "error" /\ ~fault /\ ~truncated => Terminal /\ h = "idle" /\ queue = <<>>
      /\ reply'["R"] \notin {"pending", "registered"}
  BY <1>0, <1>1 DEF RearmInv, FaultInv, CalmInv, DataTyped
<1>b. /\ Broken' => Broken
      /\ reply["R"] = "error" /\ ~fault /\ ~truncated => ~Broken'
  BY <1>1, <1>2, <1>s, Nothing DEF Broken
<1>h. ~Held' \/ h \in {"classifying", "awaitShutdown"}
  BY <1>1, <1>2 DEF Held
<1>3. Typed'
  <2>1. FlagsTyped'
    BY <1>0, <1>1, <1>2 DEF FlagsTyped
  <2>2. DataTyped'
    BY <1>0, <1>1, <1>2, <1>s, <1>b, <1>h DEF DataTyped
  <2> QED
    BY <2>1, <2>2, TypeSplit
<1>4. EndInv'
  BY <1>0, <1>1, <1>2, <1>s, <1>b, <1>h DEF EndInv, Terminal, FlagsTyped, DataTyped
<1>5. ArmsInv'
  BY <1>0, <1>1, <1>2, <1>s, <1>b, <1>h DEF ArmsInv, Terminal, FlagsTyped, DataTyped
<1>6. CountInv'
  BY <1>0, <1>1, <1>2, <1>s, <1>b, <1>h DEF CountInv, Terminal, FlagsTyped, DataTyped
<1>7. CallInv'
  BY <1>0, <1>1, <1>2, <1>s, <1>b, <1>h DEF CallInv, FlagsTyped, DataTyped
<1>8. BreakInv'
  BY <1>0, <1>1, <1>2, <1>s, <1>b, <1>h DEF BreakInv, Broken, Ended, Held, Refused, FlagsTyped, DataTyped
<1>9. RearmInv'
  BY <1>0, <1>1, <1>2, <1>s, <1>b, <1>h DEF RearmInv, Broken, Ended, Terminal, FlagsTyped, DataTyped
<1>10. FaultInv'
  <2>1. FailsForAReason'
    <3>1. reply["R"] = "busy" => tries[g] = MaxAttempts
      BY <1>0, <1>1, TriageAssumption DEF DataTyped
    <3>2. reply["R"] = "error" => fault \/ truncated
      BY <1>0, <1>1, <1>s
    <3> QED
      BY <1>1, <3>1, <3>2 DEF FailsForAReason, Generations
  <2>2. ~fault /\ ~truncated => h \in {"idle", "stopping"} /\ ~Broken'
    BY <1>0, <1>1, <1>s, <1>b
  <2>3. ~fault /\ ~truncated => CalmInv'
    BY <1>0, <1>1, <1>2, <1>s, <2>2 DEF CalmInv, FaultInv, Terminal
  <2> QED
    BY <1>0, <1>1, <1>2, <2>1, <2>3 DEF FaultInv
<1>11. LossInv'
  BY <1>0, <1>1, <1>2, <1>s, <1>b, <1>h DEF LossInv, WatchedInv, Due, Terminal, FlagsTyped, DataTyped
<1> QED
  BY <1>3, <1>4, <1>5, <1>6, <1>7, <1>8, <1>9, <1>10, <1>11 DEF TriageInv

----------------------------------------------------------------------------
(* The chain: events *)

LEMMA DropEventKept ==
  ASSUME TriageInv, DropEvent
  PROVE  TriageInv'
<1>0. Typed /\ FlagsTyped /\ DataTyped /\ EndInv /\ ArmsInv /\ CountInv /\ CallInv /\ BreakInv /\ RearmInv /\ FaultInv /\ LossInv
  BY TypeSplit DEF TriageInv
<1>p. PICK e : e = Head(queue)
  OBVIOUS
<1>1. /\ h = "idle" /\ queue # <<>> /\ e = Head(queue) /\ queue' = Tail(queue)
      /\ Terminal \/ phaseValue = "rearming"
      /\ UNCHANGED <<rearm, accepting, phaseValue, stopReason, evidenceLost, observed, exact, unresolved,
         truncated, sessionObserved, breakInArm, strays, rearms, finishing, shutdownRelease, f,
         window, paused, h, task, tries, hub, reply, inv, wire, lookup, link, registration,
         workload, writes, missed, fault>>
  BY <1>0, <1>p DEF DropEvent, Take, verdict, counts, session, shutdown, reattach, calls, server, seen,
     ChainRest
<1>2. /\ e \in Event /\ queue' \in Seq(Event)
      /\ \A A : In(queue, A) <=> e \in A \/ In(queue', A)
      /\ \A A, B : Never(queue, A, B) => Never(queue', A, B) /\ (e \in A => ~In(queue', B))
  BY <1>0, <1>1, Taken DEF DataTyped
<1>3. Typed'
  <2>1. FlagsTyped'
    BY <1>0, <1>1, <1>2 DEF FlagsTyped
  <2>2. DataTyped'
    BY <1>0, <1>1, <1>2 DEF DataTyped
  <2> QED
    BY <2>1, <2>2, TypeSplit
<1>4. EndInv'
  BY <1>0, <1>1, <1>2 DEF EndInv, Terminal, FlagsTyped, DataTyped
<1>5. ArmsInv'
  BY <1>0, <1>1, <1>2 DEF ArmsInv, Terminal, FlagsTyped, DataTyped
<1>6. CountInv'
  BY <1>0, <1>1, <1>2 DEF CountInv, Terminal, FlagsTyped, DataTyped
<1>7. CallInv'
  BY <1>0, <1>1, <1>2 DEF CallInv, FlagsTyped, DataTyped
<1>8. BreakInv'
  BY <1>0, <1>1, <1>2 DEF BreakInv, Broken, Ended, Held, Refused, FlagsTyped, DataTyped
<1>9. RearmInv'
  BY <1>0, <1>1, <1>2 DEF RearmInv, Broken, Ended, Terminal, FlagsTyped, DataTyped
<1>10. FaultInv'
  BY <1>0, <1>1, <1>2 DEF FaultInv, CalmInv, Broken, Refused, Released, Terminal, FailsForAReason,
     FlagsTyped, DataTyped
<1>11. LossInv'
  BY <1>0, <1>1, <1>2 DEF LossInv, WatchedInv, Due, Terminal, FlagsTyped, DataTyped
<1> QED
  BY <1>3, <1>4, <1>5, <1>6, <1>7, <1>8, <1>9, <1>10, <1>11 DEF TriageInv

LEMMA HandleBoundKept ==
  ASSUME TriageInv, HandleBound
  PROVE  TriageInv'
<1>0. Typed /\ FlagsTyped /\ DataTyped /\ EndInv /\ ArmsInv /\ CountInv /\ CallInv /\ BreakInv /\ RearmInv /\ FaultInv /\ LossInv
  BY TypeSplit DEF TriageInv
<1>p. PICK e : e = Head(queue)
  OBVIOUS
<1>1. /\ h = "idle" /\ queue # <<>> /\ e = Head(queue) /\ queue' = Tail(queue) /\ e = "bound" /\ ~Terminal /\
         phaseValue # "rearming"
      /\ sessionObserved' = TRUE /\ phaseValue' = "collecting"
      /\ UNCHANGED <<rearm, accepting, stopReason, evidenceLost, observed, exact, unresolved, truncated,
         breakInArm, strays, rearms, finishing, shutdownRelease, f, window, paused, h, task, tries,
         hub, reply, inv, wire, lookup, link, registration, workload, writes, missed, fault>>
  BY <1>0, <1>p DEF HandleBound, Handled, Take, verdict, counts, session, shutdown, reattach, calls,
     server, seen, ChainRest
<1>2. /\ e \in Event /\ queue' \in Seq(Event)
      /\ \A A : In(queue, A) <=> e \in A \/ In(queue', A)
      /\ \A A, B : Never(queue, A, B) => Never(queue', A, B) /\ (e \in A => ~In(queue', B))
  BY <1>0, <1>1, Taken DEF DataTyped
<1>3. Typed'
  <2>1. FlagsTyped'
    BY <1>0, <1>1, <1>2 DEF FlagsTyped
  <2>2. DataTyped'
    BY <1>0, <1>1, <1>2 DEF DataTyped
  <2> QED
    BY <2>1, <2>2, TypeSplit
<1>4. EndInv'
  BY <1>0, <1>1, <1>2 DEF EndInv, Terminal, FlagsTyped, DataTyped
<1>5. ArmsInv'
  BY <1>0, <1>1, <1>2 DEF ArmsInv, Terminal, FlagsTyped, DataTyped
<1>6. CountInv'
  BY <1>0, <1>1, <1>2 DEF CountInv, Terminal, FlagsTyped, DataTyped
<1>7. CallInv'
  BY <1>0, <1>1, <1>2 DEF CallInv, FlagsTyped, DataTyped
<1>8. BreakInv'
  BY <1>0, <1>1, <1>2 DEF BreakInv, Broken, Ended, Held, Refused, FlagsTyped, DataTyped
<1>9. RearmInv'
  BY <1>0, <1>1, <1>2 DEF RearmInv, Broken, Ended, Terminal, FlagsTyped, DataTyped
<1>10. FaultInv'
  BY <1>0, <1>1, <1>2 DEF FaultInv, CalmInv, Broken, Refused, Released, Terminal, FailsForAReason,
     FlagsTyped, DataTyped
<1>11. LossInv'
  BY <1>0, <1>1, <1>2 DEF LossInv, WatchedInv, Due, Terminal, FlagsTyped, DataTyped
<1> QED
  BY <1>3, <1>4, <1>5, <1>6, <1>7, <1>8, <1>9, <1>10, <1>11 DEF TriageInv

LEMMA HandleFatalKept ==
  ASSUME TriageInv, HandleFatal
  PROVE  TriageInv'
<1>0. Typed /\ FlagsTyped /\ DataTyped /\ EndInv /\ ArmsInv /\ CountInv /\ CallInv /\ BreakInv /\ RearmInv /\ FaultInv /\ LossInv
  BY TypeSplit DEF TriageInv
<1>p. PICK e : e = Head(queue)
  OBVIOUS
<1>1. /\ h = "idle" /\ queue # <<>> /\ e = Head(queue) /\ queue' = Tail(queue) /\ e = "fatal" /\ ~Terminal /\
         phaseValue # "rearming"
      /\ accepting' = FALSE /\ phaseValue' = "failed" /\ stopReason' = "fatal" /\ evidenceLost' = TRUE /\
         paused' = FALSE
      /\ h' = (IF hub THEN "stopping" ELSE "idle") /\ hub' = FALSE
      /\ UNCHANGED <<rearm, observed, exact, unresolved, truncated, sessionObserved, breakInArm, strays,
         rearms, finishing, shutdownRelease, f, window, task, tries, reply, inv, wire, lookup, link,
         registration, workload, writes, missed, fault>>
    <2>1. ~paused /\ phaseValue # "failed" /\ ~Terminal
    BY <1>0 DEF HandleFatal, Handled, Take, CountInv, Terminal
  <2> QED
    BY <1>0, <1>p, <2>1 DEF HandleFatal, Handled, Take, Fail, StopClient, EndAs, verdict, counts,
       session, shutdown, reattach, calls, server, seen, ChainRest
<1>2. /\ e \in Event /\ queue' \in Seq(Event)
      /\ \A A : In(queue, A) <=> e \in A \/ In(queue', A)
      /\ \A A, B : Never(queue, A, B) => Never(queue', A, B) /\ (e \in A => ~In(queue', B))
  BY <1>0, <1>1, Taken DEF DataTyped
<1>3. Typed'
  <2>1. FlagsTyped'
    BY <1>0, <1>1, <1>2 DEF FlagsTyped
  <2>2. DataTyped'
    BY <1>0, <1>1, <1>2 DEF DataTyped
  <2> QED
    BY <2>1, <2>2, TypeSplit
<1>4. EndInv'
  BY <1>0, <1>1, <1>2 DEF EndInv, Terminal, FlagsTyped, DataTyped
<1>5. ArmsInv'
  BY <1>0, <1>1, <1>2 DEF ArmsInv, Terminal, FlagsTyped, DataTyped
<1>6. CountInv'
  BY <1>0, <1>1, <1>2 DEF CountInv, Terminal, FlagsTyped, DataTyped
<1>7. CallInv'
  BY <1>0, <1>1, <1>2 DEF CallInv, FlagsTyped, DataTyped
<1>8. BreakInv'
  BY <1>0, <1>1, <1>2 DEF BreakInv, Broken, Ended, Held, Refused, FlagsTyped, DataTyped
<1>9. RearmInv'
  BY <1>0, <1>1, <1>2 DEF RearmInv, Broken, Ended, Terminal, FlagsTyped, DataTyped, EndInv
<1>10. FaultInv'
  BY <1>0, <1>1, <1>2 DEF FaultInv, CalmInv, Broken, Refused, Released, Terminal, FailsForAReason,
     FlagsTyped, DataTyped
<1>11. LossInv'
  BY <1>0, <1>1, <1>2 DEF LossInv, WatchedInv, Due, Terminal, FlagsTyped, DataTyped, EndInv
<1> QED
  BY <1>3, <1>4, <1>5, <1>6, <1>7, <1>8, <1>9, <1>10, <1>11 DEF TriageInv

\* The end of the session is handled after its last break, so no write is still due.
LEMMA HandleDetachedKept ==
  ASSUME TriageInv, HandleDetached
  PROVE  TriageInv'
<1>0. Typed /\ FlagsTyped /\ DataTyped /\ EndInv /\ ArmsInv /\ CountInv /\ CallInv /\ BreakInv /\ RearmInv /\ FaultInv /\ LossInv
  BY TypeSplit DEF TriageInv
<1>p. PICK e : e = Head(queue)
  OBVIOUS
<1>1. /\ h = "idle" /\ queue # <<>> /\ e = Head(queue) /\ queue' = Tail(queue) /\ e = "detached" /\ ~Terminal
         /\ phaseValue # "rearming"
      /\ accepting' = FALSE /\ phaseValue' = "stopped" /\ stopReason' \in {"finished", "sessionDetached"} /\
         sessionObserved' = TRUE /\ paused' = FALSE
      /\ evidenceLost' \in BOOLEAN /\ (evidenceLost' <=> evidenceLost \/ ~finishing)
      /\ UNCHANGED <<rearm, observed, exact, unresolved, truncated, breakInArm, strays, rearms, finishing,
         shutdownRelease, f, window, h, task, tries, hub, reply, inv, wire, lookup, link,
         registration, workload, writes, missed, fault>>
  BY <1>0, <1>p DEF HandleDetached, Handled, Take, EndAs, FlagsTyped, verdict, counts, session, shutdown,
     reattach, calls, server, seen, ChainRest
<1>2. /\ e \in Event /\ queue' \in Seq(Event)
      /\ \A A : In(queue, A) <=> e \in A \/ In(queue', A)
      /\ \A A, B : Never(queue, A, B) => Never(queue', A, B) /\ (e \in A => ~In(queue', B))
  BY <1>0, <1>1, Taken DEF DataTyped
<1>3. Typed'
  <2>1. FlagsTyped'
    BY <1>0, <1>1, <1>2 DEF FlagsTyped
  <2>2. DataTyped'
    BY <1>0, <1>1, <1>2 DEF DataTyped
  <2> QED
    BY <2>1, <2>2, TypeSplit
<1>4. EndInv'
  BY <1>0, <1>1, <1>2 DEF EndInv, Terminal, FlagsTyped, DataTyped
<1>5. ArmsInv'
  BY <1>0, <1>1, <1>2 DEF ArmsInv, Terminal, FlagsTyped, DataTyped
<1>6. CountInv'
  BY <1>0, <1>1, <1>2 DEF CountInv, Terminal, FlagsTyped, DataTyped
<1>7. CallInv'
  BY <1>0, <1>1, <1>2 DEF CallInv, FlagsTyped, DataTyped
<1>8. BreakInv'
  BY <1>0, <1>1, <1>2 DEF BreakInv, Broken, Ended, Held, Refused, FlagsTyped, DataTyped
<1>9. RearmInv'
  BY <1>0, <1>1, <1>2 DEF RearmInv, Broken, Ended, Terminal, FlagsTyped, DataTyped
<1>10. FaultInv'
  BY <1>0, <1>1, <1>2 DEF FaultInv, CalmInv, Broken, Refused, Released, Terminal, FailsForAReason,
     FlagsTyped, DataTyped
<1>11. LossInv'
  BY <1>0, <1>1, <1>2 DEF LossInv, WatchedInv, Due, Terminal, FlagsTyped, DataTyped, BreakInv, Ended
<1> QED
  BY <1>3, <1>4, <1>5, <1>6, <1>7, <1>8, <1>9, <1>10, <1>11 DEF TriageInv

LEMMA StraysExhausted ==
  ASSUME TriageInv, StrayBind, strays + 1 > MaxRearms
  PROVE  TriageInv'
<1>0. Typed /\ FlagsTyped /\ DataTyped /\ EndInv /\ ArmsInv /\ CountInv /\ CallInv /\ BreakInv /\ RearmInv /\ FaultInv /\ LossInv
  BY TypeSplit DEF TriageInv
<1>p. PICK e : e = Head(queue)
  OBVIOUS
<1>1. /\ h = "idle" /\ queue # <<>> /\ e = Head(queue) /\ queue' = Tail(queue) /\ e = "detached" /\ ~Terminal
         /\ phaseValue # "rearming"
      /\ ~finishing /\ strays + 1 > MaxRearms /\ strays' = strays + 1 /\ sessionObserved' = FALSE /\
         evidenceLost' = TRUE
      /\ accepting' = FALSE /\ phaseValue' = "stopped" /\ stopReason' = "strayBindsExhausted"
      /\ h' = (IF hub THEN "stopping" ELSE "idle") /\ hub' = FALSE
      /\ UNCHANGED <<rearm, observed, exact, unresolved, truncated, breakInArm, rearms, finishing,
         shutdownRelease, f, window, paused, task, tries, reply, inv, wire, lookup, link,
         registration, workload, writes, missed, fault>>
  BY <1>0, <1>p DEF StrayBind, Stray, Handled, Take, EndAs, StopClient, FlagsTyped, verdict, counts,
     session, shutdown, reattach, calls, server, seen, ChainRest
<1>2. /\ e \in Event /\ queue' \in Seq(Event)
      /\ \A A : In(queue, A) <=> e \in A \/ In(queue', A)
      /\ \A A, B : Never(queue, A, B) => Never(queue', A, B) /\ (e \in A => ~In(queue', B))
  BY <1>0, <1>1, Taken DEF DataTyped
<1>b. strays = MaxRearms /\ MaxRearms \in Nat /\ \A g \in Generations : g # strays' /\ g \in Nat
  BY <1>0, <1>1, TriageAssumption DEF ArmsInv, DataTyped, Generations
<1>3. Typed'
  <2>1. FlagsTyped'
    BY <1>0, <1>1, <1>2 DEF FlagsTyped
  <2>2. DataTyped'
    BY <1>0, <1>1, <1>2, <1>b DEF DataTyped
  <2> QED
    BY <2>1, <2>2, TypeSplit
<1>4. EndInv'
  BY <1>0, <1>1, <1>2, <1>b DEF EndInv, Terminal, FlagsTyped, DataTyped
<1>5. ArmsInv'
  BY <1>0, <1>1, <1>2, <1>b DEF ArmsInv, Terminal, FlagsTyped, DataTyped
<1>6. CountInv'
  BY <1>0, <1>1, <1>2, <1>b DEF CountInv, Terminal, FlagsTyped, DataTyped
<1>7. CallInv'
  BY <1>0, <1>1, <1>2, <1>b DEF CallInv, FlagsTyped, DataTyped
<1>8. BreakInv'
  BY <1>0, <1>1, <1>2, <1>b DEF BreakInv, Broken, Ended, Held, Refused, FlagsTyped, DataTyped
<1>9. RearmInv'
  BY <1>0, <1>1, <1>2, <1>b DEF RearmInv, Broken, Ended, Terminal, FlagsTyped, DataTyped
<1>10. FaultInv'
  BY <1>0, <1>1, <1>2, <1>b DEF FaultInv, CalmInv, Broken, Refused, Released, Terminal, FailsForAReason,
     FlagsTyped, DataTyped, BreakInv, Ended
<1>11. LossInv'
  BY <1>0, <1>1, <1>2, <1>b DEF LossInv, WatchedInv, Due, Terminal, FlagsTyped, DataTyped
<1> QED
  BY <1>3, <1>4, <1>5, <1>6, <1>7, <1>8, <1>9, <1>10, <1>11 DEF TriageInv

\* A stray has left nothing under way: no break, no registration, no attach.
LEMMA StrayRearms ==
  ASSUME TriageInv, StrayBind, ~(strays + 1 > MaxRearms)
  PROVE  TriageInv'
<1>0. Typed /\ FlagsTyped /\ DataTyped /\ EndInv /\ ArmsInv /\ CountInv /\ CallInv /\ BreakInv /\ RearmInv /\ FaultInv /\ LossInv
  BY TypeSplit DEF TriageInv
<1>p. PICK e : e = Head(queue)
  OBVIOUS
<1>1. /\ h = "idle" /\ queue # <<>> /\ e = Head(queue) /\ queue' = Tail(queue) /\ e = "detached" /\ ~Terminal
         /\ phaseValue # "rearming"
      /\ ~finishing /\ strays + 1 <= MaxRearms /\ strays' = strays + 1 /\ sessionObserved' = FALSE /\
         evidenceLost' = TRUE
      /\ phaseValue' = "rearming" /\ h' = "strayStopping" /\ hub' = FALSE
      /\ UNCHANGED <<rearm, accepting, stopReason, observed, exact, unresolved, truncated, breakInArm,
         rearms, finishing, shutdownRelease, f, window, paused, task, tries, reply, inv, wire,
         lookup, link, registration, workload, writes, missed, fault>>
  BY <1>0, <1>p, TriageAssumption DEF StrayBind, Stray, Handled, Take, EndAs, DataTyped, FlagsTyped,
     verdict, counts, session, shutdown, reattach, calls, server, seen, ChainRest
<1>2. /\ e \in Event /\ queue' \in Seq(Event)
      /\ \A A : In(queue, A) <=> e \in A \/ In(queue', A)
      /\ \A A, B : Never(queue, A, B) => Never(queue', A, B) /\ (e \in A => ~In(queue', B))
  BY <1>0, <1>1, Taken DEF DataTyped
<1>b. MaxRearms \in Nat /\ \A g \in Generations : g \in Nat
  BY TriageAssumption DEF Generations
<1>c. /\ registration = "none" /\ ~Broken' /\ reply["R"] \notin {"pending", "busy"}
      /\ \A g \in Generations : g = strays' => task[g] = "none"
  <2>1. Ended /\ registration = "none" /\ ~Broken' /\ reply["R"] \notin {"pending", "busy"}
    BY <1>0, <1>1, <1>2 DEF BreakInv, RearmInv, Ended, Broken
  <2>2. \A g \in Generations : g = strays' => g > strays
    BY <1>0, <1>1, <1>b DEF DataTyped
  <2> QED
    BY <1>0, <2>1, <2>2 DEF ArmsInv
<1>3. Typed'
  <2>1. FlagsTyped'
    BY <1>0, <1>1, <1>2 DEF FlagsTyped
  <2>2. DataTyped'
    BY <1>0, <1>1, <1>2, <1>b, <1>c DEF DataTyped
  <2> QED
    BY <2>1, <2>2, TypeSplit
<1>4. EndInv'
  BY <1>0, <1>1, <1>2, <1>b, <1>c DEF EndInv, Terminal, FlagsTyped, DataTyped
<1>5. ArmsInv'
  BY <1>0, <1>1, <1>2, <1>b, <1>c DEF ArmsInv, Terminal, FlagsTyped, DataTyped
<1>6. CountInv'
  BY <1>0, <1>1, <1>2, <1>b, <1>c DEF CountInv, Terminal, FlagsTyped, DataTyped
<1>7. CallInv'
  BY <1>0, <1>1, <1>2, <1>b, <1>c DEF CallInv, FlagsTyped, DataTyped
<1>8. BreakInv'
  BY <1>0, <1>1, <1>2, <1>b, <1>c DEF BreakInv, Broken, Ended, Held, Refused, FlagsTyped, DataTyped
<1>9. RearmInv'
  BY <1>0, <1>1, <1>2, <1>b, <1>c DEF RearmInv, Broken, Ended, Terminal, FlagsTyped, DataTyped, ArmsInv
<1>10. FaultInv'
  BY <1>0, <1>1, <1>2, <1>b, <1>c DEF FaultInv, CalmInv, Broken, Refused, Released, Terminal,
     FailsForAReason, FlagsTyped, DataTyped, ArmsInv
<1>11. LossInv'
  BY <1>0, <1>1, <1>2, <1>b, <1>c DEF LossInv, WatchedInv, Due, Terminal, FlagsTyped, DataTyped
<1> QED
  BY <1>3, <1>4, <1>5, <1>6, <1>7, <1>8, <1>9, <1>10, <1>11 DEF TriageInv

LEMMA StrayStoppedKept ==
  ASSUME TriageInv, StrayStopped
  PROVE  TriageInv'
<1>0. Typed /\ FlagsTyped /\ DataTyped /\ EndInv /\ ArmsInv /\ CountInv /\ CallInv /\ BreakInv /\ RearmInv /\ FaultInv /\ LossInv
  BY TypeSplit DEF TriageInv
<1>1. /\ h = "strayStopping" /\ h' = "idle"
      /\ link' = "down" /\ inv' = <<>> /\ wire' = <<>> /\ lookup' = FALSE /\ registration' = "none" /\
         workload' = "none"
      /\ reply' = [w \in {"H", "F", "R"} |-> IF reply[w] \in {"pending", "registered"} THEN "error" ELSE
         reply[w]]
      /\ IF finishing \/ Terminal THEN UNCHANGED <<task, tries>> ELSE task' = [task EXCEPT ![strays] =
         "waiting"] /\ tries' = [tries EXCEPT ![strays] = 1]
      /\ UNCHANGED <<rearm, accepting, phaseValue, stopReason, evidenceLost, observed, exact, unresolved,
         truncated, sessionObserved, breakInArm, strays, rearms, finishing, shutdownRelease, f,
         window, paused, queue, hub, writes, missed, fault>>
  BY <1>0 DEF StrayStopped, LinkDown, DataTyped, verdict, counts, session, shutdown, reattach, calls,
     server, seen, ChainRest
<1>2. \A A, B : ~In(wire', A) /\ Never(wire', A, B) /\ ~In(inv', A) /\ Never(inv', A, B)
  BY <1>1, Nothing
<1>b. ~Terminal /\ ~hub /\ phaseValue = "rearming" /\ evidenceLost /\ strays <= MaxRearms /\ MaxRearms \in Nat /\ 1 \in 0..MaxAttempts
      /\ reply'["R"] \notin {"pending", "busy"} /\ (\A g \in Generations : g = strays => task[g] = "none")
      /\ (~fault /\ ~truncated => ~Broken')
  <2>1. ~Terminal /\ ~hub /\ phaseValue = "rearming" /\ \A g \in Generations : g = strays => task[g] = "none"
    BY <1>0, <1>1 DEF ArmsInv
  <2>2. evidenceLost
    BY <1>0, <2>1 DEF LossInv, WatchedInv
  <2>3. strays <= MaxRearms /\ MaxRearms \in Nat /\ 1 \in 0..MaxAttempts
    BY <1>0, <2>1, TriageAssumption DEF ArmsInv, DataTyped
  <2>4. reply["R"] # "busy" /\ reply'["R"] \notin {"pending", "busy"}
    BY <1>0, <1>1 DEF RearmInv, DataTyped
  <2>5. ~fault /\ ~truncated => ~Broken
    BY <1>0, <2>1 DEF FaultInv, CalmInv
  <2>6. Broken' => Broken
    BY <1>1, <1>2 DEF Broken
  <2> QED
    BY <2>1, <2>2, <2>3, <2>4, <2>5, <2>6
<1>h. ~Held'
  BY <1>1, <1>2 DEF Held
<1>3. Typed'
  <2>1. FlagsTyped'
    BY <1>0, <1>1, <1>2 DEF FlagsTyped
  <2>2. DataTyped'
    <3>1. CASE strays \in Generations
      <4>1. task' \in [Generations -> {"none", "waiting", "authorizing", "attaching", "over"}] /\ tries' \in [Generations -> 0..MaxAttempts]
        BY <1>0, <1>1, <1>b, <3>1 DEF DataTyped
      <4> QED
        BY <1>0, <1>1, <1>2, <1>b, <4>1 DEF DataTyped
    <3>2. CASE strays \notin Generations
      <4>1. task' = task /\ tries' = tries
        BY <1>0, <1>1, <3>2 DEF DataTyped
      <4> QED
        BY <1>0, <1>1, <1>2, <1>b, <4>1 DEF DataTyped
    <3> QED
      BY <3>1, <3>2
  <2> QED
    BY <2>1, <2>2, TypeSplit
<1>4. EndInv'
  BY <1>0, <1>1, <1>2, <1>b, <1>h DEF EndInv, Terminal, FlagsTyped, DataTyped, ArmsInv
<1>5. ArmsInv'
  BY <1>0, <1>1, <1>2, <1>b, <1>h DEF ArmsInv, Terminal, FlagsTyped, DataTyped
<1>6. CountInv'
  BY <1>0, <1>1, <1>2, <1>b, <1>h DEF CountInv, Terminal, FlagsTyped, DataTyped
<1>7. CallInv'
  BY <1>0, <1>1, <1>2, <1>b, <1>h DEF CallInv, FlagsTyped, DataTyped
<1>8. BreakInv'
  BY <1>0, <1>1, <1>2, <1>b, <1>h DEF BreakInv, Broken, Ended, Held, Refused, FlagsTyped, DataTyped
<1>9. RearmInv'
  BY <1>0, <1>1, <1>2, <1>b, <1>h DEF RearmInv, Broken, Ended, Terminal, FlagsTyped, DataTyped
<1>10. FaultInv'
  BY <1>0, <1>1, <1>2, <1>b, <1>h DEF FaultInv, CalmInv, Broken, Refused, Released, Terminal,
     FailsForAReason, FlagsTyped, DataTyped
<1>11. LossInv'
  BY <1>0, <1>1, <1>2, <1>b, <1>h DEF LossInv, WatchedInv, Due, Terminal, FlagsTyped, DataTyped
<1> QED
  BY <1>3, <1>4, <1>5, <1>6, <1>7, <1>8, <1>9, <1>10, <1>11 DEF TriageInv

LEMMA StoppedKept ==
  ASSUME TriageInv, Stopped
  PROVE  TriageInv'
<1>0. Typed /\ FlagsTyped /\ DataTyped /\ EndInv /\ ArmsInv /\ CountInv /\ CallInv /\ BreakInv /\ RearmInv /\ FaultInv /\ LossInv
  BY TypeSplit DEF TriageInv
<1>1. /\ h = "stopping" /\ h' = "idle"
      /\ link' = "down" /\ inv' = <<>> /\ wire' = <<>> /\ lookup' = FALSE /\ registration' = "none" /\
         workload' = "none"
      /\ reply' = [w \in {"H", "F", "R"} |-> IF reply[w] \in {"pending", "registered"} THEN "error" ELSE
         reply[w]]
      /\ UNCHANGED <<rearm, accepting, phaseValue, stopReason, evidenceLost, observed, exact, unresolved,
         truncated, sessionObserved, breakInArm, strays, rearms, finishing, shutdownRelease, f,
         window, paused, queue, task, tries, hub, writes, missed, fault>>
  BY <1>0 DEF Stopped, LinkDown, DataTyped, verdict, counts, session, shutdown, reattach, calls, server,
     seen, ChainRest
<1>2. \A A, B : ~In(wire', A) /\ Never(wire', A, B) /\ ~In(inv', A) /\ Never(inv', A, B)
  BY <1>1, Nothing
<1>b. Terminal /\ ~hub /\ f \notin {"stopping", "done"} /\ reply'["R"] # "pending"
      /\ (~fault /\ ~truncated => ~Broken' /\ \A g \in Generations : g # strays)
  <2>1. Terminal /\ ~hub /\ f \notin {"stopping", "done"}
    BY <1>0, <1>1 DEF EndInv
  <2>2. reply'["R"] # "pending"
    BY <1>0, <1>1 DEF DataTyped
  <2>3. ~fault /\ ~truncated => strays = MaxRearms + 1 /\ ~In(queue, {"break"})
    BY <1>0, <1>1 DEF FaultInv, CalmInv
  <2>4. \A g \in Generations : g # MaxRearms + 1
    BY TriageAssumption DEF Generations
  <2> QED
    BY <1>1, <1>2, <2>1, <2>2, <2>3, <2>4 DEF Broken
<1>h. ~Held'
  BY <1>1, <1>2 DEF Held
<1>3. Typed'
  <2>1. FlagsTyped'
    BY <1>0, <1>1, <1>2 DEF FlagsTyped
  <2>2. DataTyped'
    BY <1>0, <1>1, <1>2, <1>b, <1>h DEF DataTyped
  <2> QED
    BY <2>1, <2>2, TypeSplit
<1>4. EndInv'
  BY <1>0, <1>1, <1>2, <1>b, <1>h DEF EndInv, Terminal, FlagsTyped, DataTyped
<1>5. ArmsInv'
  BY <1>0, <1>1, <1>2, <1>b, <1>h DEF ArmsInv, Terminal, FlagsTyped, DataTyped
<1>6. CountInv'
  BY <1>0, <1>1, <1>2, <1>b, <1>h DEF CountInv, Terminal, FlagsTyped, DataTyped
<1>7. CallInv'
  BY <1>0, <1>1, <1>2, <1>b, <1>h DEF CallInv, FlagsTyped, DataTyped
<1>8. BreakInv'
  BY <1>0, <1>1, <1>2, <1>b, <1>h DEF BreakInv, Broken, Ended, Held, Refused, FlagsTyped, DataTyped
<1>9. RearmInv'
  BY <1>0, <1>1, <1>2, <1>b, <1>h DEF RearmInv, Broken, Ended, Terminal, FlagsTyped, DataTyped
<1>10. FaultInv'
  BY <1>0, <1>1, <1>2, <1>b, <1>h DEF FaultInv, CalmInv, Broken, Refused, Released, Terminal,
     FailsForAReason, FlagsTyped, DataTyped
<1>11. LossInv'
  BY <1>0, <1>1, <1>2, <1>b, <1>h DEF LossInv, WatchedInv, Due, Terminal, FlagsTyped, DataTyped
<1> QED
  BY <1>3, <1>4, <1>5, <1>6, <1>7, <1>8, <1>9, <1>10, <1>11 DEF TriageInv

LEMMA FailReleasedKept ==
  ASSUME TriageInv, FailReleased
  PROVE  TriageInv'
<1>0. Typed /\ FlagsTyped /\ DataTyped /\ EndInv /\ ArmsInv /\ CountInv /\ CallInv /\ BreakInv /\ RearmInv /\ FaultInv /\ LossInv
  BY TypeSplit DEF TriageInv
<1>1. /\ h = "failReleasing" /\ reply["H"] \in {"ok", "error"} /\ paused' = FALSE /\ h' = (IF hub THEN
         "stopping" ELSE "idle") /\ hub' = FALSE
      /\ UNCHANGED <<rearm, accepting, phaseValue, stopReason, evidenceLost, observed, exact, unresolved,
         truncated, sessionObserved, breakInArm, strays, rearms, finishing, shutdownRelease, f,
         window, queue, task, tries, reply, inv, wire, lookup, link, registration, workload, writes,
         missed, fault>>
  BY <1>0 DEF FailReleased, Answered, StopClient, verdict, counts, session, shutdown, reattach, calls,
     server, seen, ChainRest
<1>2. /\ phaseValue = "failed" /\ (fault \/ truncated) /\ f \notin {"stopping", "done"} /\ evidenceLost
      /\ ~In(inv, Asks("H")) /\ ~In(wire, Answers("H", Either))
  BY <1>0, <1>1 DEF EndInv, FaultInv, CalmInv, LossInv, WatchedInv, CallInv, FlagsTyped
<1>3. Typed'
  <2>1. FlagsTyped'
    BY <1>0, <1>1, <1>2 DEF FlagsTyped
  <2>2. DataTyped'
    BY <1>0, <1>1, <1>2 DEF DataTyped
  <2> QED
    BY <2>1, <2>2, TypeSplit
<1>4. EndInv'
  BY <1>0, <1>1, <1>2 DEF EndInv, Terminal, FlagsTyped, DataTyped
<1>5. ArmsInv'
  BY <1>0, <1>1, <1>2 DEF ArmsInv, Terminal, FlagsTyped, DataTyped
<1>6. CountInv'
  BY <1>0, <1>1, <1>2 DEF CountInv, Terminal, FlagsTyped, DataTyped
<1>7. CallInv'
  BY <1>0, <1>1, <1>2 DEF CallInv, FlagsTyped, DataTyped
<1>8. BreakInv'
  BY <1>0, <1>1, <1>2 DEF BreakInv, Broken, Ended, Held, Refused, FlagsTyped, DataTyped
<1>9. RearmInv'
  BY <1>0, <1>1, <1>2 DEF RearmInv, Broken, Ended, Terminal, FlagsTyped, DataTyped
<1>10. FaultInv'
  BY <1>0, <1>1, <1>2 DEF FaultInv, CalmInv, Broken, Refused, Released, Terminal, FailsForAReason,
     FlagsTyped, DataTyped
<1>11. LossInv'
  BY <1>0, <1>1, <1>2 DEF LossInv, WatchedInv, Due, Terminal, FlagsTyped, DataTyped
<1> QED
  BY <1>3, <1>4, <1>5, <1>6, <1>7, <1>8, <1>9, <1>10, <1>11 DEF TriageInv

\* The break taken up is the only one under way, and the count has room for it.
LEMMA HandleBreakKept ==
  ASSUME TriageInv, HandleBreak
  PROVE  TriageInv'
<1>0. Typed /\ FlagsTyped /\ DataTyped /\ EndInv /\ ArmsInv /\ CountInv /\ CallInv /\ BreakInv /\ RearmInv /\ FaultInv /\ LossInv
  BY TypeSplit DEF TriageInv
<1>p. PICK e : e = Head(queue)
  OBVIOUS
<1>1. /\ h = "idle" /\ queue # <<>> /\ e = Head(queue) /\ queue' = Tail(queue) /\ e = "break" /\ ~Terminal /\
         phaseValue # "rearming"
      /\ phaseValue' = "collecting" /\ sessionObserved' = TRUE /\ breakInArm' = TRUE /\ paused' = TRUE /\
         observed' = observed + 1 /\ h' = "classifying"
      /\ UNCHANGED <<rearm, accepting, stopReason, evidenceLost, exact, unresolved, truncated, strays,
         rearms, finishing, shutdownRelease, f, window, task, tries, hub, reply, inv, wire, lookup,
         link, registration, workload, writes, missed, fault>>
  BY <1>0, <1>p DEF HandleBreak, Handled, Take, verdict, counts, session, shutdown, reattach, calls,
     server, seen, ChainRest
<1>2. /\ e \in Event /\ queue' \in Seq(Event)
      /\ \A A : In(queue, A) <=> e \in A \/ In(queue', A)
      /\ \A A, B : Never(queue, A, B) => Never(queue', A, B) /\ (e \in A => ~In(queue', B))
  BY <1>0, <1>1, Taken DEF DataTyped
<1>b. Broken /\ ~Broken' /\ reply["R"] \notin {"pending", "busy"} /\ observed < MaxObserved /\ MaxObserved \in Nat
      /\ workload # "running" /\ registration # "armed" /\ ~In(inv, Asks("H")) /\ ~In(wire, Answers("H", Either)) /\ ~In(wire, Answers("H", {"error"}))
  <2>1. Broken
    BY <1>1, <1>2 DEF Broken
  <2>2. ~Broken'
    BY <1>0, <1>1, <1>2 DEF BreakInv, Broken
  <2> QED
    BY <1>0, <1>1, <2>1, <2>2, AnAnswer, TriageAssumption DEF BreakInv, RearmInv, CountInv, CallInv,
       Terminal, Either
<1>3. Typed'
  <2>1. FlagsTyped'
    BY <1>0, <1>1, <1>2 DEF FlagsTyped
  <2>2. DataTyped'
    BY <1>0, <1>1, <1>2, <1>b DEF DataTyped
  <2> QED
    BY <2>1, <2>2, TypeSplit
<1>4. EndInv'
  BY <1>0, <1>1, <1>2, <1>b DEF EndInv, Terminal, FlagsTyped, DataTyped
<1>5. ArmsInv'
  BY <1>0, <1>1, <1>2, <1>b DEF ArmsInv, Terminal, FlagsTyped, DataTyped
<1>6. CountInv'
  BY <1>0, <1>1, <1>2, <1>b DEF CountInv, Terminal, FlagsTyped, DataTyped
<1>7. CallInv'
  BY <1>0, <1>1, <1>2, <1>b DEF CallInv, FlagsTyped, DataTyped
<1>8. BreakInv'
  BY <1>0, <1>1, <1>2, <1>b DEF BreakInv, Broken, Ended, Held, Refused, FlagsTyped, DataTyped
<1>9. RearmInv'
  BY <1>0, <1>1, <1>2, <1>b DEF RearmInv, Broken, Ended, Terminal, FlagsTyped, DataTyped
<1>10. FaultInv'
  BY <1>0, <1>1, <1>2, <1>b DEF FaultInv, CalmInv, Broken, Refused, Released, Terminal, FailsForAReason,
     FlagsTyped, DataTyped
<1>11. LossInv'
  BY <1>0, <1>1, <1>2, <1>b DEF LossInv, WatchedInv, Due, Terminal, FlagsTyped, DataTyped
<1> QED
  BY <1>3, <1>4, <1>5, <1>6, <1>7, <1>8, <1>9, <1>10, <1>11 DEF TriageInv

----------------------------------------------------------------------------
(* The chain: the end of a break *)

\* The break that was being classified is counted.
Counted ==
  /\ exact' \in Nat /\ unresolved' \in Nat
  /\ exact' + unresolved' = exact + unresolved + (IF h = "classifying" THEN 1 ELSE 0)

\* It ends with an invocation, which finish()'s release cannot cross but at the cap ...
BreakAsked ==
  /\ h \in {"classifying", "awaitShutdown"} /\ hub /\ h' = "releasing"
  /\ shutdownRelease \in {"null", "false"} \/ truncated'
  /\ \E step \in {"continue", "release"} : Invoke("H", step)
  /\ Counted
  /\ truncated' \in BOOLEAN /\ evidenceLost' \in BOOLEAN
  /\ truncated => truncated'
  /\ evidenceLost \/ (truncated' /\ ~truncated) => evidenceLost'
  /\ \/ UNCHANGED <<accepting, phaseValue, stopReason>> /\ observed < MaxObserved
     \/ /\ accepting' = FALSE /\ phaseValue' = "stopped" /\ stopReason' \in {"finished", "maxObservedWrites"}
        /\ finishing \/ evidenceLost'
  /\ UNCHANGED <<rearm, observed, session, shutdown, paused, queue, reattach, hub, server, seen>>

\* ... or, for want of a hub, with the failure of the capture.
BreakLost ==
  /\ h \in {"classifying", "awaitShutdown"} /\ ~hub /\ h' = "idle"
  /\ Counted
  /\ truncated' \in BOOLEAN /\ (truncated => truncated')
  /\ EndAs("failed", "fatal") /\ evidenceLost' = TRUE /\ paused' = FALSE
  /\ UNCHANGED <<rearm, observed, session, shutdown, queue, reattach, hub, calls, server, seen>>

\* The handler asks for the step of a workload that is paused for it, and for nobody else.
LEMMA BreakAskedKept ==
  ASSUME TriageInv, BreakAsked
  PROVE  TriageInv'
<1>0. Typed /\ FlagsTyped /\ DataTyped /\ EndInv /\ ArmsInv /\ CountInv /\ CallInv /\ BreakInv /\ RearmInv /\ FaultInv /\ LossInv
  BY TypeSplit DEF TriageInv
<1>r. PICK r : \E step \in {"continue", "release"} : r = [who |-> "H", step |-> step] /\ Invoke("H", step)
  BY DEF BreakAsked
<1>k. r \in Invocation /\ r \in Asks("H") /\ r \notin Asks("F")
  BY <1>r, Requests
<1>1. /\ h \in {"classifying", "awaitShutdown"} /\ hub /\ h' = "releasing"
      /\ shutdownRelease \in {"null", "false"} \/ truncated'
      /\ inv' = Append(inv, r) /\ reply' = [reply EXCEPT !["H"] = "pending"]
      /\ exact' \in Nat /\ unresolved' \in Nat /\ exact' + unresolved' = exact + unresolved + (IF h =
         "classifying" THEN 1 ELSE 0)
      /\ truncated' \in BOOLEAN /\ evidenceLost' \in BOOLEAN /\ (truncated => truncated') /\ (evidenceLost \/
         (truncated' /\ ~truncated) => evidenceLost')
      /\ (accepting' = accepting /\ phaseValue' = phaseValue /\ stopReason' = stopReason /\ observed <
         MaxObserved) \/ (accepting' = FALSE /\ phaseValue' = "stopped" /\ stopReason' \in
         {"finished", "maxObservedWrites"} /\ (finishing \/ evidenceLost'))
      /\ UNCHANGED <<rearm, observed, sessionObserved, breakInArm, strays, rearms, finishing,
         shutdownRelease, f, window, paused, queue, task, tries, hub, wire, lookup, link,
         registration, workload, writes, missed, fault>>
  BY <1>0, <1>r DEF BreakAsked, Counted, Invoke, verdict, counts, session, shutdown, reattach, calls,
     server, seen, ChainRest
<1>2. /\ inv' \in Seq(Invocation)
      /\ \A A : In(inv', A) <=> In(inv, A) \/ r \in A
      /\ \A A, B : Never(inv, A, B) /\ (r \in B => ~In(inv, A)) => Never(inv', A, B)
  BY <1>0, <1>1, <1>k, Sent DEF DataTyped
<1>a. /\ ~In(inv, Asks("H")) /\ ~In(wire, Answers("H", Either)) /\ ~In(wire, Answers("H", {"error"}))
  BY <1>0, <1>1, AnAnswer DEF CallInv, Either
<1>b. Held /\ Held' /\ workload # "running" /\ ~(paused /\ phaseValue = "failed") /\ f \notin {"stopping", "done"}
  BY <1>0, <1>1, <1>2, <1>k DEF Held, BreakInv, CountInv, EndInv
<1>c. truncated' \/ (~Released /\ ~In(inv, Asks("F")))
  BY <1>0, <1>1, AnAnswer DEF Released, CallInv, Either
<1>h. reply'["H"] = "pending" /\ reply'["F"] = reply["F"] /\ reply'["R"] = reply["R"]
  BY <1>0, <1>1 DEF DataTyped
<1>e. observed = exact' + unresolved' /\ exact' \in Nat /\ unresolved' \in Nat /\ exact' <= observed /\ unresolved' <= observed
  <2>1. PICK d \in Nat : d = IF h = "classifying" THEN 1 ELSE 0
    OBVIOUS
  <2>2. observed = exact + unresolved + d
    BY <1>0, <2>1 DEF CountInv
  <2>3. exact \in Nat /\ unresolved \in Nat /\ observed \in Nat /\ d \in Nat
    BY <1>0, <2>1 DEF DataTyped
  <2>4. exact' \in Nat /\ unresolved' \in Nat /\ exact' + unresolved' = exact + unresolved + d
    BY <1>1, <2>1
  <2>5. \A a, b \in Nat : a <= a + b /\ b <= a + b
    OBVIOUS
  <2> QED
    BY <2>2, <2>3, <2>4, <2>5
<1>3. Typed'
  <2>1. FlagsTyped'
    BY <1>0, <1>1, <1>2 DEF FlagsTyped
  <2>2. DataTyped'
    <3>1. reply' \in [{"H", "F", "R"} -> {"none", "pending", "registered", "ok", "busy", "error"}]
      BY <1>0, <1>1 DEF DataTyped
    <3>2. /\ phaseValue' \in {"arming", "collecting", "rearming", "stopped", "failed"}
          /\ stopReason' \in {"null", "finished", "maxObservedWrites", "sessionDetached", "strayBindsExhausted", "fatal"}
      BY <1>0, <1>1 DEF DataTyped
    <3>3. exact' \in Nat /\ exact' <= observed' /\ unresolved' \in Nat /\ unresolved' <= observed'
      BY <1>1, <1>e
    <3>4. inv' \in Seq(Invocation) /\ h' = "releasing"
      BY <1>1, <1>2
    <3> QED
      BY <1>0, <1>1, <3>1, <3>2, <3>3, <3>4 DEF DataTyped
  <2> QED
    BY <2>1, <2>2, TypeSplit
<1>4. EndInv'
  BY <1>0, <1>1, <1>2, <1>k, <1>a, <1>b, <1>c, <1>h, <1>e DEF EndInv, Terminal, FlagsTyped, DataTyped
<1>5. ArmsInv'
  BY <1>0, <1>1, <1>2, <1>k, <1>a, <1>b, <1>c, <1>h, <1>e DEF ArmsInv, Terminal, FlagsTyped, DataTyped
<1>6. CountInv'
  <2>1. h' # "classifying" /\ observed' = exact' + unresolved'
    BY <1>1, <1>e
  <2>2. observed' = exact' + unresolved' + 0
    BY <1>1, <1>e
  <2>3. (observed = exact + unresolved + (IF h = "classifying" THEN 1 ELSE 0))'
    BY <2>1, <2>2
  <2>4. ~Terminal' => observed' < MaxObserved
    BY <1>0, <1>1 DEF CountInv, Terminal
  <2>5. paused' => h' \in {"classifying", "releasing", "awaitShutdown", "failReleasing"}
    BY <1>0, <1>1 DEF CountInv
  <2>6. paused' /\ phaseValue' = "failed" => h' = "failReleasing"
    BY <1>0, <1>b, <1>1 DEF CountInv
  <2> QED
    BY <2>3, <2>4, <2>5, <2>6 DEF CountInv
<1>7. CallInv'
  BY <1>0, <1>1, <1>2, <1>k, <1>a, <1>b, <1>c, <1>h, <1>e DEF CallInv, FlagsTyped, DataTyped
<1>8. BreakInv'
  BY <1>0, <1>1, <1>2, <1>k, <1>a, <1>b, <1>c, <1>h, <1>e DEF BreakInv, Broken, Ended, Held, Refused,
     FlagsTyped, DataTyped
<1>9. RearmInv'
  BY <1>0, <1>1, <1>2, <1>k, <1>a, <1>b, <1>c, <1>h, <1>e DEF RearmInv, Broken, Ended, Terminal,
     FlagsTyped, DataTyped
<1>10. FaultInv'
  BY <1>0, <1>1, <1>2, <1>k, <1>a, <1>b, <1>c, <1>h, <1>e DEF FaultInv, CalmInv, Broken, Refused,
     Released, Terminal, FailsForAReason, FlagsTyped, DataTyped
<1>11. LossInv'
  BY <1>0, <1>1, <1>2, <1>k, <1>a, <1>b, <1>c, <1>h, <1>e DEF LossInv, WatchedInv, Due, Terminal,
     FlagsTyped, DataTyped
<1> QED
  BY <1>3, <1>4, <1>5, <1>6, <1>7, <1>8, <1>9, <1>10, <1>11 DEF TriageInv

\* Without a fault, and short of the cap, a break has its hub.
LEMMA BreakLostKept ==
  ASSUME TriageInv, BreakLost
  PROVE  TriageInv'
<1>0. Typed /\ FlagsTyped /\ DataTyped /\ EndInv /\ ArmsInv /\ CountInv /\ CallInv /\ BreakInv /\ RearmInv /\ FaultInv /\ LossInv
  BY TypeSplit DEF TriageInv
<1>1. /\ h \in {"classifying", "awaitShutdown"} /\ ~hub /\ h' = "idle"
      /\ exact' \in Nat /\ unresolved' \in Nat /\ exact' + unresolved' = exact + unresolved + (IF h =
         "classifying" THEN 1 ELSE 0)
      /\ truncated' \in BOOLEAN /\ (truncated => truncated')
      /\ accepting' = FALSE /\ phaseValue' = "failed" /\ stopReason' = "fatal" /\ evidenceLost' = TRUE /\
         paused' = FALSE
      /\ UNCHANGED <<rearm, observed, sessionObserved, breakInArm, strays, rearms, finishing,
         shutdownRelease, f, window, queue, task, tries, hub, reply, inv, wire, lookup, link,
         registration, workload, writes, missed, fault>>
  BY <1>0 DEF BreakLost, Counted, EndAs, verdict, counts, session, shutdown, reattach, calls, server,
     seen, ChainRest
<1>2. fault \/ truncated
  BY <1>0, <1>1 DEF FaultInv, CalmInv
<1>e. observed = exact' + unresolved' /\ exact' \in Nat /\ unresolved' \in Nat /\ exact' <= observed /\ unresolved' <= observed
  <2>1. PICK d \in Nat : d = IF h = "classifying" THEN 1 ELSE 0
    OBVIOUS
  <2>2. observed = exact + unresolved + d
    BY <1>0, <2>1 DEF CountInv
  <2>3. exact \in Nat /\ unresolved \in Nat /\ observed \in Nat /\ d \in Nat
    BY <1>0, <2>1 DEF DataTyped
  <2>4. exact' \in Nat /\ unresolved' \in Nat /\ exact' + unresolved' = exact + unresolved + d
    BY <1>1, <2>1
  <2>5. \A a, b \in Nat : a <= a + b /\ b <= a + b
    OBVIOUS
  <2> QED
    BY <2>2, <2>3, <2>4, <2>5
<1>3. Typed'
  <2>1. FlagsTyped'
    BY <1>0, <1>1, <1>2 DEF FlagsTyped
  <2>2. DataTyped'
    BY <1>0, <1>1, <1>2, <1>e DEF DataTyped
  <2> QED
    BY <2>1, <2>2, TypeSplit
<1>4. EndInv'
  BY <1>0, <1>1, <1>2 DEF EndInv, Terminal, FlagsTyped, DataTyped
<1>5. ArmsInv'
  BY <1>0, <1>1, <1>2 DEF ArmsInv, Terminal, FlagsTyped, DataTyped
<1>6. CountInv'
  <2>1. h' # "classifying" /\ observed' = exact' + unresolved'
    BY <1>1, <1>e
  <2>2. observed' = exact' + unresolved' + 0
    BY <1>1, <1>e
  <2>3. (observed = exact + unresolved + (IF h = "classifying" THEN 1 ELSE 0))'
    BY <2>1, <2>2
  <2>4. ~Terminal' => observed' < MaxObserved
    BY <1>0, <1>1 DEF CountInv, Terminal
  <2>5. paused' => h' \in {"classifying", "releasing", "awaitShutdown", "failReleasing"}
    BY <1>0, <1>1 DEF CountInv
  <2>6. paused' /\ phaseValue' = "failed" => h' = "failReleasing"
    BY <1>0, <1>1 DEF CountInv
  <2> QED
    BY <2>3, <2>4, <2>5, <2>6 DEF CountInv
<1>7. CallInv'
  BY <1>0, <1>1, <1>2 DEF CallInv, FlagsTyped, DataTyped
<1>8. BreakInv'
  BY <1>0, <1>1, <1>2 DEF BreakInv, Broken, Ended, Held, Refused, FlagsTyped, DataTyped
<1>9. RearmInv'
  BY <1>0, <1>1, <1>2 DEF RearmInv, Broken, Ended, Terminal, FlagsTyped, DataTyped
<1>10. FaultInv'
  BY <1>0, <1>1, <1>2 DEF FaultInv, CalmInv, Broken, Refused, Released, Terminal, FailsForAReason,
     FlagsTyped, DataTyped
<1>11. LossInv'
  BY <1>0, <1>1, <1>2 DEF LossInv, WatchedInv, Due, Terminal, FlagsTyped, DataTyped
<1> QED
  BY <1>3, <1>4, <1>5, <1>6, <1>7, <1>8, <1>9, <1>10, <1>11 DEF TriageInv

LEMMA ShutdownAwaiting ==
  ASSUME TriageInv, NEW resolved \in BOOLEAN, FinishAtBreak(resolved), shutdownRelease \in {"pending", "true"}
  PROVE  TriageInv'
<1>0. Typed /\ FlagsTyped /\ DataTyped /\ EndInv /\ ArmsInv /\ CountInv /\ CallInv /\ BreakInv /\ RearmInv /\ FaultInv /\ LossInv
  BY TypeSplit DEF TriageInv
<1>1. /\ h = "classifying" /\ h' = "awaitShutdown" /\ finishing
      /\ exact' \in Nat /\ unresolved' \in Nat /\ exact' + unresolved' = exact + unresolved + (IF h =
         "classifying" THEN 1 ELSE 0)
      /\ accepting' = FALSE /\ phaseValue' = "stopped" /\ stopReason' = "finished"
      /\ evidenceLost' \in BOOLEAN /\ (evidenceLost => evidenceLost')
      /\ UNCHANGED <<rearm, observed, truncated, sessionObserved, breakInArm, strays, rearms, finishing,
         shutdownRelease, f, window, paused, queue, task, tries, hub, reply, inv, wire, lookup,
         link, registration, workload, writes, missed, fault>>
  BY <1>0 DEF FinishAtBreak, Classify, EndAs, DataTyped, FlagsTyped, verdict, counts, session, shutdown,
     reattach, calls, server, seen, ChainRest
<1>e. observed = exact' + unresolved' /\ exact' \in Nat /\ unresolved' \in Nat /\ exact' <= observed /\ unresolved' <= observed
  <2>1. PICK d \in Nat : d = IF h = "classifying" THEN 1 ELSE 0
    OBVIOUS
  <2>2. observed = exact + unresolved + d
    BY <1>0, <2>1 DEF CountInv
  <2>3. exact \in Nat /\ unresolved \in Nat /\ observed \in Nat /\ d \in Nat
    BY <1>0, <2>1 DEF DataTyped
  <2>4. exact' \in Nat /\ unresolved' \in Nat /\ exact' + unresolved' = exact + unresolved + d
    BY <1>1, <2>1
  <2>5. \A a, b \in Nat : a <= a + b /\ b <= a + b
    OBVIOUS
  <2> QED
    BY <2>2, <2>3, <2>4, <2>5
<1>3. Typed'
  <2>1. FlagsTyped'
    BY <1>0, <1>1 DEF FlagsTyped
  <2>2. DataTyped'
    BY <1>0, <1>1, <1>e DEF DataTyped
  <2> QED
    BY <2>1, <2>2, TypeSplit
<1>4. EndInv'
  BY <1>0, <1>1 DEF EndInv, Terminal, FlagsTyped, DataTyped
<1>5. ArmsInv'
  BY <1>0, <1>1 DEF ArmsInv, Terminal, FlagsTyped, DataTyped
<1>6. CountInv'
  <2>1. h' # "classifying" /\ observed' = exact' + unresolved'
    BY <1>1, <1>e
  <2>2. observed' = exact' + unresolved' + 0
    BY <1>1, <1>e
  <2>3. (observed = exact + unresolved + (IF h = "classifying" THEN 1 ELSE 0))'
    BY <2>1, <2>2
  <2>4. ~Terminal' => observed' < MaxObserved
    BY <1>0, <1>1 DEF CountInv, Terminal
  <2>5. paused' => h' \in {"classifying", "releasing", "awaitShutdown", "failReleasing"}
    BY <1>0, <1>1 DEF CountInv
  <2>6. paused' /\ phaseValue' = "failed" => h' = "failReleasing"
    BY <1>0, <1>1 DEF CountInv
  <2> QED
    BY <2>3, <2>4, <2>5, <2>6 DEF CountInv
<1>7. CallInv'
  BY <1>0, <1>1 DEF CallInv, FlagsTyped, DataTyped
<1>8. BreakInv'
  BY <1>0, <1>1 DEF BreakInv, Broken, Ended, Held, Refused, FlagsTyped, DataTyped
<1>9. RearmInv'
  BY <1>0, <1>1 DEF RearmInv, Broken, Ended, Terminal, FlagsTyped, DataTyped
<1>10. FaultInv'
  BY <1>0, <1>1 DEF FaultInv, CalmInv, Broken, Refused, Released, Terminal, FailsForAReason, FlagsTyped,
     DataTyped
<1>11. LossInv'
  BY <1>0, <1>1 DEF LossInv, WatchedInv, Due, Terminal, FlagsTyped, DataTyped
<1> QED
  BY <1>3, <1>4, <1>5, <1>6, <1>7, <1>8, <1>9, <1>10, <1>11 DEF TriageInv

LEMMA ShutdownAwaitedKept ==
  ASSUME TriageInv, ShutdownAwaited, shutdownRelease = "true"
  PROVE  TriageInv'
<1>0. Typed /\ FlagsTyped /\ DataTyped /\ EndInv /\ ArmsInv /\ CountInv /\ CallInv /\ BreakInv /\ RearmInv /\ FaultInv /\ LossInv
  BY TypeSplit DEF TriageInv
<1>1. /\ h = "awaitShutdown" /\ h' = "idle" /\ paused' = FALSE
      /\ UNCHANGED <<rearm, accepting, phaseValue, stopReason, evidenceLost, observed, exact, unresolved,
         truncated, sessionObserved, breakInArm, strays, rearms, finishing, shutdownRelease, f,
         window, queue, task, tries, hub, reply, inv, wire, lookup, link, registration, workload,
         writes, missed, fault>>
  BY <1>0 DEF ShutdownAwaited, verdict, counts, session, shutdown, reattach, calls, server, seen, ChainRest
<1>3. Typed'
  <2>1. FlagsTyped'
    BY <1>0, <1>1 DEF FlagsTyped
  <2>2. DataTyped'
    BY <1>0, <1>1 DEF DataTyped
  <2> QED
    BY <2>1, <2>2, TypeSplit
<1>4. EndInv'
  BY <1>0, <1>1 DEF EndInv, Terminal, FlagsTyped, DataTyped
<1>5. ArmsInv'
  BY <1>0, <1>1 DEF ArmsInv, Terminal, FlagsTyped, DataTyped
<1>6. CountInv'
  BY <1>0, <1>1 DEF CountInv, Terminal, FlagsTyped, DataTyped
<1>7. CallInv'
  BY <1>0, <1>1 DEF CallInv, FlagsTyped, DataTyped
<1>8. BreakInv'
  BY <1>0, <1>1 DEF BreakInv, Broken, Ended, Held, Refused, FlagsTyped, DataTyped
<1>9. RearmInv'
  BY <1>0, <1>1 DEF RearmInv, Broken, Ended, Terminal, FlagsTyped, DataTyped
<1>10. FaultInv'
  BY <1>0, <1>1 DEF FaultInv, CalmInv, Broken, Refused, Released, Terminal, FailsForAReason, FlagsTyped,
     DataTyped
<1>11. LossInv'
  BY <1>0, <1>1 DEF LossInv, WatchedInv, Due, Terminal, FlagsTyped, DataTyped
<1> QED
  BY <1>3, <1>4, <1>5, <1>6, <1>7, <1>8, <1>9, <1>10, <1>11 DEF TriageInv

LEMMA ResumedKept ==
  ASSUME TriageInv, Resumed
  PROVE  TriageInv'
<1>0. Typed /\ FlagsTyped /\ DataTyped /\ EndInv /\ ArmsInv /\ CountInv /\ CallInv /\ BreakInv /\ RearmInv /\ FaultInv /\ LossInv
  BY TypeSplit DEF TriageInv
<1>1. /\ h = "releasing" /\ reply["H"] = "ok" /\ h' = "idle" /\ paused' = FALSE
      /\ UNCHANGED <<rearm, accepting, phaseValue, stopReason, evidenceLost, observed, exact, unresolved,
         truncated, sessionObserved, breakInArm, strays, rearms, finishing, shutdownRelease, f,
         window, queue, task, tries, hub, reply, inv, wire, lookup, link, registration, workload,
         writes, missed, fault>>
  BY <1>0 DEF Resumed, Answered, verdict, counts, session, shutdown, reattach, calls, server, seen, ChainRest
<1>2. /\ ~In(inv, Asks("H")) /\ ~In(wire, Answers("H", Either)) /\ ~In(wire, Answers("H", {"error"}))
  BY <1>0, <1>1, AnAnswer DEF CallInv, Either
<1>3. Typed'
  <2>1. FlagsTyped'
    BY <1>0, <1>1, <1>2 DEF FlagsTyped
  <2>2. DataTyped'
    BY <1>0, <1>1, <1>2 DEF DataTyped
  <2> QED
    BY <2>1, <2>2, TypeSplit
<1>4. EndInv'
  BY <1>0, <1>1, <1>2 DEF EndInv, Terminal, FlagsTyped, DataTyped
<1>5. ArmsInv'
  BY <1>0, <1>1, <1>2 DEF ArmsInv, Terminal, FlagsTyped, DataTyped
<1>6. CountInv'
  BY <1>0, <1>1, <1>2 DEF CountInv, Terminal, FlagsTyped, DataTyped
<1>7. CallInv'
  BY <1>0, <1>1, <1>2 DEF CallInv, FlagsTyped, DataTyped
<1>8. BreakInv'
  BY <1>0, <1>1, <1>2 DEF BreakInv, Broken, Ended, Held, Refused, FlagsTyped, DataTyped
<1>9. RearmInv'
  BY <1>0, <1>1, <1>2 DEF RearmInv, Broken, Ended, Terminal, FlagsTyped, DataTyped
<1>10. FaultInv'
  BY <1>0, <1>1, <1>2 DEF FaultInv, CalmInv, Broken, Refused, Released, Terminal, FailsForAReason,
     FlagsTyped, DataTyped
<1>11. LossInv'
  BY <1>0, <1>1, <1>2 DEF LossInv, WatchedInv, Due, Terminal, FlagsTyped, DataTyped
<1> QED
  BY <1>3, <1>4, <1>5, <1>6, <1>7, <1>8, <1>9, <1>10, <1>11 DEF TriageInv

LEMMA RejectedAfterFailure ==
  ASSUME TriageInv, ResumeRejected, phaseValue = "failed"
  PROVE  TriageInv'
<1>0. Typed /\ FlagsTyped /\ DataTyped /\ EndInv /\ ArmsInv /\ CountInv /\ CallInv /\ BreakInv /\ RearmInv /\ FaultInv /\ LossInv
  BY TypeSplit DEF TriageInv
<1>1. /\ h = "releasing" /\ reply["H"] = "error" /\ h' = "idle" /\ phaseValue = "failed"
      /\ UNCHANGED <<rearm, accepting, phaseValue, stopReason, evidenceLost, observed, exact, unresolved,
         truncated, sessionObserved, breakInArm, strays, rearms, finishing, shutdownRelease, f,
         window, paused, queue, task, tries, hub, reply, inv, wire, lookup, link, registration,
         workload, writes, missed, fault>>
  BY <1>0 DEF ResumeRejected, Answered, Fail, verdict, counts, session, shutdown, reattach, calls,
     server, seen, ChainRest
<1>2. /\ ~In(inv, Asks("H")) /\ ~In(wire, Answers("H", Either)) /\ ~In(wire, Answers("H", {"error"}))
  BY <1>0, <1>1, AnAnswer DEF CallInv, Either
<1>b. fault \/ truncated
  BY <1>0, <1>1 DEF FaultInv, CalmInv, Refused
<1>3. Typed'
  <2>1. FlagsTyped'
    BY <1>0, <1>1, <1>2 DEF FlagsTyped
  <2>2. DataTyped'
    BY <1>0, <1>1, <1>2, <1>b DEF DataTyped
  <2> QED
    BY <2>1, <2>2, TypeSplit
<1>4. EndInv'
  BY <1>0, <1>1, <1>2, <1>b DEF EndInv, Terminal, FlagsTyped, DataTyped
<1>5. ArmsInv'
  BY <1>0, <1>1, <1>2, <1>b DEF ArmsInv, Terminal, FlagsTyped, DataTyped
<1>6. CountInv'
  BY <1>0, <1>1, <1>2, <1>b DEF CountInv, Terminal, FlagsTyped, DataTyped
<1>7. CallInv'
  BY <1>0, <1>1, <1>2, <1>b DEF CallInv, FlagsTyped, DataTyped
<1>8. BreakInv'
  BY <1>0, <1>1, <1>2, <1>b DEF BreakInv, Broken, Ended, Held, Refused, FlagsTyped, DataTyped
<1>9. RearmInv'
  BY <1>0, <1>1, <1>2, <1>b DEF RearmInv, Broken, Ended, Terminal, FlagsTyped, DataTyped
<1>10. FaultInv'
  BY <1>0, <1>1, <1>2, <1>b DEF FaultInv, CalmInv, Broken, Refused, Released, Terminal, FailsForAReason,
     FlagsTyped, DataTyped
<1>11. LossInv'
  BY <1>0, <1>1, <1>2, <1>b DEF LossInv, WatchedInv, Due, Terminal, FlagsTyped, DataTyped
<1> QED
  BY <1>3, <1>4, <1>5, <1>6, <1>7, <1>8, <1>9, <1>10, <1>11 DEF TriageInv

LEMMA RejectedUnpaused ==
  ASSUME TriageInv, ResumeRejected, phaseValue # "failed", ~(paused /\ hub)
  PROVE  TriageInv'
<1>0. Typed /\ FlagsTyped /\ DataTyped /\ EndInv /\ ArmsInv /\ CountInv /\ CallInv /\ BreakInv /\ RearmInv /\ FaultInv /\ LossInv
  BY TypeSplit DEF TriageInv
<1>1. /\ h = "releasing" /\ reply["H"] = "error" /\ h' = (IF hub THEN "stopping" ELSE "idle") /\ hub' = FALSE
         /\ paused' = FALSE
      /\ accepting' = FALSE /\ phaseValue' = "failed" /\ stopReason' = "fatal" /\ evidenceLost' = TRUE
      /\ UNCHANGED <<rearm, observed, exact, unresolved, truncated, sessionObserved, breakInArm, strays,
         rearms, finishing, shutdownRelease, f, window, queue, task, tries, reply, inv, wire,
         lookup, link, registration, workload, writes, missed, fault>>
  BY <1>0 DEF ResumeRejected, Answered, Fail, StopClient, EndAs, verdict, counts, session, shutdown,
     reattach, calls, server, seen, ChainRest
<1>2. /\ ~In(inv, Asks("H")) /\ ~In(wire, Answers("H", Either)) /\ ~In(wire, Answers("H", {"error"}))
  BY <1>0, <1>1, AnAnswer DEF CallInv, Either
<1>b. fault \/ truncated
  BY <1>0, <1>1 DEF FaultInv, CalmInv, Refused
<1>3. Typed'
  <2>1. FlagsTyped'
    BY <1>0, <1>1, <1>2 DEF FlagsTyped
  <2>2. DataTyped'
    BY <1>0, <1>1, <1>2, <1>b DEF DataTyped
  <2> QED
    BY <2>1, <2>2, TypeSplit
<1>4. EndInv'
  BY <1>0, <1>1, <1>2, <1>b DEF EndInv, Terminal, FlagsTyped, DataTyped
<1>5. ArmsInv'
  BY <1>0, <1>1, <1>2, <1>b DEF ArmsInv, Terminal, FlagsTyped, DataTyped
<1>6. CountInv'
  BY <1>0, <1>1, <1>2, <1>b DEF CountInv, Terminal, FlagsTyped, DataTyped
<1>7. CallInv'
  BY <1>0, <1>1, <1>2, <1>b DEF CallInv, FlagsTyped, DataTyped
<1>8. BreakInv'
  BY <1>0, <1>1, <1>2, <1>b DEF BreakInv, Broken, Ended, Held, Refused, FlagsTyped, DataTyped
<1>9. RearmInv'
  BY <1>0, <1>1, <1>2, <1>b DEF RearmInv, Broken, Ended, Terminal, FlagsTyped, DataTyped
<1>10. FaultInv'
  BY <1>0, <1>1, <1>2, <1>b DEF FaultInv, CalmInv, Broken, Refused, Released, Terminal, FailsForAReason,
     FlagsTyped, DataTyped
<1>11. LossInv'
  BY <1>0, <1>1, <1>2, <1>b DEF LossInv, WatchedInv, Due, Terminal, FlagsTyped, DataTyped
<1> QED
  BY <1>3, <1>4, <1>5, <1>6, <1>7, <1>8, <1>9, <1>10, <1>11 DEF TriageInv

LEMMA RejectedPaused ==
  ASSUME TriageInv, ResumeRejected, phaseValue # "failed", paused, hub
  PROVE  TriageInv'
<1>0. Typed /\ FlagsTyped /\ DataTyped /\ EndInv /\ ArmsInv /\ CountInv /\ CallInv /\ BreakInv /\ RearmInv /\ FaultInv /\ LossInv
  BY TypeSplit DEF TriageInv
<1>r. PICK r : r = [who |-> "H", step |-> "release"]
  OBVIOUS
<1>k. r \in Invocation /\ r \in Asks("H") /\ r \notin Asks("F")
  BY <1>r, Requests
<1>1. /\ h = "releasing" /\ reply["H"] = "error" /\ h' = "failReleasing" /\ hub
      /\ accepting' = FALSE /\ phaseValue' = "failed" /\ stopReason' = "fatal" /\ evidenceLost' = TRUE
      /\ inv' = Append(inv, r) /\ reply' = [reply EXCEPT !["H"] = "pending"]
      /\ UNCHANGED <<rearm, observed, exact, unresolved, truncated, sessionObserved, breakInArm, strays,
         rearms, finishing, shutdownRelease, f, window, paused, queue, task, tries, hub, wire,
         lookup, link, registration, workload, writes, missed, fault>>
  BY <1>0, <1>r DEF ResumeRejected, Answered, Fail, Invoke, EndAs, verdict, counts, session, shutdown,
     reattach, calls, server, seen, ChainRest
<1>2. /\ inv' \in Seq(Invocation)
      /\ \A A : In(inv', A) <=> In(inv, A) \/ r \in A
      /\ \A A, B : Never(inv, A, B) /\ (r \in B => ~In(inv, A)) => Never(inv', A, B)
  BY <1>0, <1>1, <1>k, Sent DEF DataTyped
<1>a. /\ ~In(inv, Asks("H")) /\ ~In(wire, Answers("H", Either)) /\ ~In(wire, Answers("H", {"error"}))
  BY <1>0, <1>1, AnAnswer DEF CallInv, Either
<1>b. fault \/ truncated
  BY <1>0, <1>1 DEF FaultInv, CalmInv, Refused
<1>c. Held /\ workload # "running" /\ f \notin {"stopping", "done"}
  BY <1>0, <1>1 DEF Held, Refused, BreakInv, EndInv, DataTyped
<1>3. Typed'
  <2>1. FlagsTyped'
    BY <1>0, <1>1, <1>2 DEF FlagsTyped
  <2>2. DataTyped'
    BY <1>0, <1>1, <1>2, <1>k, <1>a, <1>b, <1>c DEF DataTyped
  <2> QED
    BY <2>1, <2>2, TypeSplit
<1>4. EndInv'
  BY <1>0, <1>1, <1>2, <1>k, <1>a, <1>b, <1>c DEF EndInv, Terminal, FlagsTyped, DataTyped
<1>5. ArmsInv'
  BY <1>0, <1>1, <1>2, <1>k, <1>a, <1>b, <1>c DEF ArmsInv, Terminal, FlagsTyped, DataTyped
<1>6. CountInv'
  BY <1>0, <1>1, <1>2, <1>k, <1>a, <1>b, <1>c DEF CountInv, Terminal, FlagsTyped, DataTyped
<1>7. CallInv'
  BY <1>0, <1>1, <1>2, <1>k, <1>a, <1>b, <1>c DEF CallInv, FlagsTyped, DataTyped
<1>8. BreakInv'
  BY <1>0, <1>1, <1>2, <1>k, <1>a, <1>b, <1>c DEF BreakInv, Broken, Ended, Held, Refused, FlagsTyped,
     DataTyped
<1>9. RearmInv'
  BY <1>0, <1>1, <1>2, <1>k, <1>a, <1>b, <1>c DEF RearmInv, Broken, Ended, Terminal, FlagsTyped, DataTyped
<1>10. FaultInv'
  BY <1>0, <1>1, <1>2, <1>k, <1>a, <1>b, <1>c DEF FaultInv, CalmInv, Broken, Refused, Released, Terminal,
     FailsForAReason, FlagsTyped, DataTyped
<1>11. LossInv'
  BY <1>0, <1>1, <1>2, <1>k, <1>a, <1>b, <1>c DEF LossInv, WatchedInv, Due, Terminal, FlagsTyped, DataTyped
<1> QED
  BY <1>3, <1>4, <1>5, <1>6, <1>7, <1>8, <1>9, <1>10, <1>11 DEF TriageInv

\* The three ends of a classified break are one of those.
LEMMA ClassifiedEnds ==
  ASSUME TriageInv, NEW resolved \in BOOLEAN,
         ReachCap(resolved) \/ FinishAtBreak(resolved) \/ Continue(resolved)
  PROVE  \/ BreakAsked \/ BreakLost
         \/ FinishAtBreak(resolved) /\ shutdownRelease \in {"pending", "true"}
<1>0. FlagsTyped /\ DataTyped /\ EndInv /\ CallInv
  BY TypeSplit DEF TriageInv
<1>1. Classify(resolved) => h = "classifying" /\ Counted /\ UNCHANGED <<observed, session, queue>>
  BY <1>0 DEF Classify, Counted, DataTyped
<1>2. CASE ReachCap(resolved) /\ hub
  BY <1>0, <1>1, <1>2 DEF ReachCap, EndCaptureAs, EndAs, EndBreak, BreakAsked, ChainRest, FlagsTyped
<1>3. CASE ReachCap(resolved) /\ ~hub
  BY <1>0, <1>1, <1>3 DEF ReachCap, EndCaptureAs, EndAs, EndBreak, BreakLost, ChainRest, FlagsTyped
<1>4. CASE FinishAtBreak(resolved) /\ shutdownRelease \notin {"pending", "true"} /\ hub
  <2>1. shutdownRelease \in {"null", "false"}
    BY <1>0, <1>4 DEF DataTyped
  <2> QED
    BY <1>0, <1>1, <1>4, <2>1 DEF FinishAtBreak, EndCaptureAs, EndAs, EndBreak, BreakAsked, ChainRest,
       FlagsTyped
<1>5. CASE FinishAtBreak(resolved) /\ shutdownRelease \notin {"pending", "true"} /\ ~hub
  BY <1>0, <1>1, <1>5 DEF FinishAtBreak, EndCaptureAs, EndAs, EndBreak, BreakLost, ChainRest, FlagsTyped
<1>6. CASE Continue(resolved) /\ hub
  <2>1. shutdownRelease = "null"
    BY <1>0, <1>6 DEF Continue, EndInv, CallInv
  <2> QED
    BY <1>0, <1>1, <1>6, <2>1 DEF Continue, EndBreak, BreakAsked, ChainRest, FlagsTyped, DataTyped
<1>7. CASE Continue(resolved) /\ ~hub
  BY <1>0, <1>1, <1>7 DEF Continue, EndAs, EndBreak, BreakLost, ChainRest, FlagsTyped
<1> QED
  BY <1>2, <1>3, <1>4, <1>5, <1>6, <1>7

\* So is a break whose wait for finish()'s release was in vain.
LEMMA AwaitedEnds ==
  ASSUME TriageInv, ShutdownAwaited, shutdownRelease # "true"
  PROVE  BreakAsked \/ BreakLost
<1>0. FlagsTyped /\ DataTyped /\ EndInv /\ CallInv
  BY TypeSplit DEF TriageInv
<1>1. h = "awaitShutdown" /\ shutdownRelease = "false" /\ EndCaptureAs("finished") /\ EndBreak("release", evidenceLost)
      /\ ChainRest /\ UNCHANGED <<counts, session, queue>>
  BY DEF ShutdownAwaited
<1>2. Counted
  BY <1>0, <1>1 DEF Counted, counts, DataTyped
<1>3. finishing
  BY <1>0, <1>1 DEF EndInv, CallInv
<1>4. CASE hub
  BY <1>0, <1>1, <1>2, <1>3, <1>4 DEF EndCaptureAs, EndAs, EndBreak, BreakAsked, ChainRest, counts, FlagsTyped
<1>5. CASE ~hub
  BY <1>0, <1>1, <1>2, <1>5 DEF EndCaptureAs, EndAs, EndBreak, BreakLost, ChainRest, counts, FlagsTyped
<1> QED
  BY <1>4, <1>5

----------------------------------------------------------------------------
(* Every step keeps the invariant *)

LEMMA ChainKept == ASSUME TriageInv, Chain PROVE TriageInv'
<1>1. CASE StrayBind
  BY <1>1, StraysExhausted, StrayRearms
<1>2. CASE \E resolved \in BOOLEAN : ReachCap(resolved) \/ FinishAtBreak(resolved) \/ Continue(resolved)
  <2>1. PICK resolved \in BOOLEAN : ReachCap(resolved) \/ FinishAtBreak(resolved) \/ Continue(resolved)
    BY <1>2
  <2> QED
    BY <2>1, ClassifiedEnds, BreakAskedKept, BreakLostKept, ShutdownAwaiting
<1>3. CASE ResumeRejected
  BY <1>3, RejectedAfterFailure, RejectedUnpaused, RejectedPaused
<1>4. CASE ShutdownAwaited
  BY <1>4, AwaitedEnds, BreakAskedKept, BreakLostKept, ShutdownAwaitedKept
<1>5. CASE DropEvent \/ HandleBound \/ HandleFatal \/ HandleDetached \/ HandleBreak
  BY <1>5, DropEventKept, HandleBoundKept, HandleFatalKept, HandleDetachedKept, HandleBreakKept
<1>6. CASE StrayStopped \/ Stopped \/ FailReleased \/ Resumed
  BY <1>6, StrayStoppedKept, StoppedKept, FailReleasedKept, ResumedKept
<1> QED
  BY <1>1, <1>2, <1>3, <1>4, <1>5, <1>6 DEF Chain

LEMMA RearmKept == ASSUME TriageInv, Rearm PROVE TriageInv'
<1>0. PICK g \in Generations :
        Reattach(g) \/ Connect(g) \/ AuthorizationFails(g) \/ Reattached(g) \/ ReattachRejected(g)
  BY DEF Rearm
<1>1. CASE Reattach(g)
  BY <1>1, ReattachSuperseded, ReattachKept
<1>2. CASE Reattached(g)
  BY <1>2, ReattachedKept
<1>3. CASE ReattachRejected(g)
  <2>1. g # strays => Superseded(g)
    BY DEF Superseded
  <2> QED
    BY <1>3, <2>1, OlderRejected, RejectedSuperseded, RejectedRetried, RejectedForGood
<1>4. CASE Connect(g)
  BY <1>4, ConnectKept
<1>5. CASE AuthorizationFails(g)
  BY <1>5, UnauthorizedSuperseded, UnauthorizedForGood
<1> QED
  BY <1>0, <1>1, <1>2, <1>3, <1>4, <1>5

LEMMA FinishingKept == ASSUME TriageInv, Finishing PROVE TriageInv'
BY ShutdownUnasked, ShutdownAsked, ShutdownReleasedKept, DrainedKept, FinishedKept DEF Finishing

LEMMA NetworkKept == ASSUME TriageInv, Network \/ HubClosed PROVE TriageInv'
BY CallbackLost, CallbackKept, CompletionKept, SessionUnheard, SessionBoundKept, HubClosedUnheard,
   HubClosedKept DEF Network

LEMMA ServerKept ==
  ASSUME TriageInv,
         Server \/ ServerRegisters \/ Bind \/ Write \/ SessionEnds \/ WriteUnseen \/ DebuggerException
  PROVE  TriageInv'
BY ServerAnswers, ServerContinuesKept, ServerReleasesKept, ServerRefusesKept, ServerAnswersAttachKept,
   ServerRegistersKept, BindKept, WriteKept, SessionEndsKept, WriteUnseenKept, DebuggerExceptionKept DEF Server

LEMMA TriageStutters == ASSUME TriageInv, UNCHANGED triageVars PROVE TriageInv'
<1> USE DEF triageVars, verdict, counts, session, shutdown, reattach, calls, server, seen
<1>1. Typed' /\ EndInv' /\ ArmsInv' /\ CountInv'
  BY DEF TriageInv, Typed, TriageTypeOK, EndInv, ArmsInv, CountInv, Terminal
<1>2. CallInv' /\ BreakInv' /\ RearmInv'
  BY DEF TriageInv, CallInv, BreakInv, RearmInv, Broken, Ended, Held, Refused, Terminal
<1>3. FaultInv'
  BY DEF TriageInv, FaultInv, CalmInv, Broken, Refused, Released, FailsForAReason, Terminal
<1>4. LossInv'
  BY DEF TriageInv, LossInv, WatchedInv, Due, Terminal
<1> QED
  BY <1>1, <1>2, <1>3, <1>4 DEF TriageInv

LEMMA TriageStep == TriageInv /\ [TriageNext]_triageVars => TriageInv'
<1> SUFFICES ASSUME TriageInv, [TriageNext]_triageVars PROVE TriageInv'
  OBVIOUS
<1>1. CASE TriageNext
  BY <1>1, ChainKept, RearmKept, FinishingKept, NetworkKept, ServerKept, FinishKept DEF TriageNext
<1>2. CASE UNCHANGED triageVars
  BY <1>2, TriageStutters
<1> QED
  BY <1>1, <1>2

\* The collector keeps its invariant, whatever Business Central and the connection do.
THEOREM TriageInvariance == TriageSpec => []TriageInv
<1>1. TriageInit => TriageInv
  BY TriageInitOK
<1>2. TriageInv /\ [TriageNext]_triageVars => TriageInv'
  BY TriageStep
<1> QED
  BY <1>1, <1>2, PTL DEF TriageSpec

----------------------------------------------------------------------------
(* What follows from it *)

\* Neither the workload nor the capture is given up by mistake: a paused workload has a handler, and
\* a capture fails only for a fault, at the cap, or when every attach attempt was refused.
THEOREM HandledForAReason == TriageSpec => []HandledSafely
<1>1. TriageInv => HandledSafely
  <2> SUFFICES ASSUME TriageInv PROVE HandledSafely
    OBVIOUS
  <2>1. TriageTypeOK
    BY DEF TriageInv, Typed
  <2>2. PausedWhileHandled
    BY DEF TriageInv, CountInv, PausedWhileHandled
  <2>3. FailsForAReason
    BY DEF TriageInv, FaultInv
  <2> QED
    BY <2>1, <2>2, <2>3 DEF HandledSafely
<1> QED
  BY <1>1, TriageInvariance, PTL

\* A report that says complete has seen every write that was made before finish() was called, each
\* classified exactly: evidence that may be missing is always marked (evidenceLost, truncated,
\* unresolvedWrites, failed).
THEOREM CompleteTrusted == TriageSpec => []CompleteIsExact
<1>1. TriageInv => CompleteIsExact
  <2> SUFFICES ASSUME TriageInv, f = "done", Complete PROVE exact = observed /\ observed >= window /\ ~missed
    BY DEF CompleteIsExact
  <2>1. FlagsTyped /\ DataTyped /\ EndInv /\ CountInv
    BY TypeSplit DEF TriageInv
  <2>2. h = "idle" /\ Terminal
    BY <2>1 DEF EndInv
  <2>3. unresolved = 0 /\ WatchedInv
    BY <2>1 DEF TriageInv, LossInv, Complete, FlagsTyped
  <2>4. observed = exact + 0 + 0
    BY <2>1, <2>2, <2>3 DEF CountInv
  <2>5. ~missed /\ ~(window > observed)
    BY <2>2, <2>3 DEF WatchedInv, Due
  <2> QED
    BY <2>1, <2>4, <2>5 DEF DataTyped
<1> QED
  BY <1>1, TriageInvariance, PTL

\* Once finish() was called no re-attach begins: a pending re-arm gives up, and a re-attach in flight
\* that is rejected is not retried.  One that is in flight, still without its authorization or not, may
\* yet get its connection, but only while finish() waits for it, and the report returns without one.
THEOREM NeverAttachesLate == TriageSpec => NoAttachAfterFinish
<1> DEFINE Late ==
      finishing =>
        /\ \A g \in Generations : task'[g] = "authorizing" => task[g] = "authorizing"
        /\ hub' /\ ~hub => f = "awaitRearm" /\ \E g \in Generations : task[g] = "authorizing"
        /\ f' = "done" => ~hub'
<1>1. TriageInv /\ TriageInv' /\ [TriageNext]_triageVars => [Late]_triageVars
  <2> SUFFICES ASSUME TriageInv, TriageInv', TriageNext, finishing PROVE Late
    OBVIOUS
  <2> USE DEF verdict, counts, session, shutdown, reattach, calls, server, seen
  <2>0. hub \in BOOLEAN /\ task \in [Generations -> {"none", "waiting", "authorizing", "attaching", "over"}]
    BY TypeSplit DEF TriageInv, FlagsTyped, DataTyped
  <2>d. f' = "done" => ~hub'
    BY DEF TriageInv, EndInv
  <2>r. \A g \in Generations : task[g] = "authorizing" => f = "awaitRearm"
    BY DEF TriageInv, EndInv, RearmInv
  <2>1. CASE Chain
    <3>1. CASE \E resolved \in BOOLEAN : ReachCap(resolved) \/ FinishAtBreak(resolved) \/ Continue(resolved)
      BY <2>0, <2>d, <3>1 DEF ReachCap, FinishAtBreak, Continue, EndBreak, ChainRest
    <3>2. CASE DropEvent \/ HandleBound \/ HandleDetached \/ HandleBreak \/ Resumed
      BY <3>2, <2>d DEF DropEvent, HandleBound, HandleDetached, HandleBreak, Resumed, ChainRest
    <3>3. CASE HandleFatal \/ ResumeRejected \/ FailReleased
      BY <3>3, <2>0, <2>d DEF HandleFatal, ResumeRejected, FailReleased, Fail, StopClient, ChainRest
    <3>4. CASE StrayBind \/ StrayStopped \/ Stopped \/ ShutdownAwaited
      BY <3>4, <2>0, <2>d DEF StrayBind, Stray, StopClient, StrayStopped, Stopped, ShutdownAwaited, EndBreak, ChainRest
    <3> QED
      BY <2>1, <3>1, <3>2, <3>3, <3>4 DEF Chain
  <2>2. CASE Rearm
    <3>1. PICK g \in Generations :
            Reattach(g) \/ Connect(g) \/ AuthorizationFails(g) \/ Reattached(g) \/ ReattachRejected(g)
      BY <2>2 DEF Rearm
    <3>2. Superseded(g)
      BY DEF Superseded
    <3>3. CASE Connect(g)
      BY <3>3, <2>0, <2>d, <2>r DEF Connect
    <3>4. CASE ~Connect(g)
      BY <2>0, <2>d, <3>1, <3>2, <3>4 DEF Reattach, AuthorizationFails, Reattached, ReattachRejected
    <3> QED
      BY <3>3, <3>4
  <2>3. CASE Finishing \/ Finish
    BY <2>3, <2>0, <2>d DEF Finishing, Finish, ReleaseForShutdown, ShutdownReleased, Drained, Finished
  <2>4. CASE Network \/ HubClosed
    BY <2>4, <2>0, <2>d DEF Network, Callback, Completion, SessionBound, HubClosed, Collector
  <2>5. CASE Server \/ ServerRegisters \/ Bind \/ Write \/ SessionEnds \/ WriteUnseen \/ DebuggerException
    BY <2>5, <2>d DEF Server, ServerSteps, ServerAnswersAttach, ServerRegisters, Bind, Write, SessionEnds,
         WriteUnseen, DebuggerException, ServerRest, Collector
  <2> QED
    BY <2>1, <2>2, <2>3, <2>4, <2>5 DEF TriageNext
<1> QED
  BY <1>1, TriageInvariance, PTL DEF TriageSpec, NoAttachAfterFinish
=============================================================================
