------------------------- MODULE HandleLedgerProofs -------------------------
(***************************************************************************)
(* What the handle ledger guarantees for any sessions, handles, threads    *)
(* and revision width.  Three inductive invariants, one for each property: *)
(* who owns an attempt, what a registration is covered by, and what a      *)
(* retired owner's entries look like.                                      *)
(***************************************************************************)
EXTENDS HandleLedger, TLAPS

\* Revisions are handed out once and in order; nothing refers to a later one.
RevisionsBounded ==
    \A k \in Keys : /\ entries[k].observation <= revision
                    /\ entries[k].releaseObservation <= revision

\* A token held by a thread is the attempt its entry records, no two threads
\* hold one for the same key, and a thread outside a release holds none.
TokensCurrent ==
    /\ \A t \in Callers : ~Releasing(t) => token[t] = 0
    /\ \A t \in Callers :
          token[t] # 0 => /\ entries[arg[t]].tracked
                          /\ entries[arg[t]].attempt = token[t]
    /\ \A t, u \in Callers :
          token[t] # 0 /\ token[u] # 0 /\ arg[t] = arg[u] => t = u

AttemptsHeld ==
    \A k \in Keys :
        entries[k].attempt # 0 =>
            \E t \in Callers : arg[t] = k /\ token[t] = entries[k].attempt

AttemptInv == TokensCurrent /\ AttemptsHeld

\* A release that nothing tracks has already given up completeness.
UntrackedIncomplete ==
    \A t \in Callers : Releasing(t) /\ token[t] = 0 => ~complete

\* A handle registered again behind a release that succeeded is about to be
\* reported, or its report is newer than the one that release accounts for.
ReregistrationSeen ==
    \A t \in Callers :
        complete /\ pc[t] = "succeeded" /\ arg[t] \in registered =>
            \/ ReportPending(arg[t])
            \/ entries[arg[t]].observation > entries[arg[t]].releaseObservation

CoverageInv == /\ RevisionsBounded
               /\ UntrackedIncomplete
               /\ ReregistrationSeen
               /\ CoverageExact

RetiredFlagged ==
    \A o \in retired :
        ObservationLocked(o) \/
        \A h \in Handles : entries[<<o, h>>].tracked => entries[<<o, h>>].retired

DisplacedRetired ==
    \A o \in opened \ {current} :
          o \in retired \/ \E t \in Callers : pc[t] = "retire" /\ victim[t] = o

RetirementInv == RetiredFlagged /\ DisplacedRetired

-----------------------------------------------------------------------------
(***************************************************************************)
(* Type correctness.                                                       *)
(***************************************************************************)
LEMMA TypeInit == LedgerInit => TypeOK
  BY LedgerAssumption DEF LedgerInit, TypeOK, Untracked, Entry, Locations

LEMMA RevisionType ==
  ASSUME TypeOK
  PROVE  /\ NextRevision \in Nat
         /\ RevisionTaken => revision' \in 0..MaxRevision
  BY LedgerAssumption DEF TypeOK, NextRevision, RevisionTaken

LEMMA UntrackedType == Untracked \in Entry
  BY DEF Untracked, Entry

LEMMA ObservedType ==
  ASSUME TypeOK, NEW e \in Entry, NEW r \in BOOLEAN
  PROVE  Observed(e, r) \in Entry
  BY RevisionType DEF Observed, Entry

LEMMA CompletedType ==
  ASSUME NEW e \in Entry, NEW outcome
  PROVE  Completed(e, outcome) \in Entry
<1>1. [e EXCEPT !.attempt = 0] \in Entry
  BY DEF Entry
<1> QED
  BY <1>1, UntrackedType DEF Completed

LEMMA ObserveType ==
  ASSUME TypeOK, NEW k \in Keys, NEW r \in BOOLEAN, LedgerObserve(k, r)
  PROVE  /\ entries' \in [Keys -> Entry]
         /\ revision' \in 0..MaxRevision
         /\ sequence' \in Nat
         /\ complete' \in BOOLEAN
<1>1. Observed(entries[k], r) \in Entry
  BY ObservedType DEF TypeOK
<1>2. entries' \in [Keys -> Entry]
  BY <1>1 DEF LedgerObserve, TypeOK
<1>3. revision' \in 0..MaxRevision
  BY RevisionType DEF LedgerObserve, TypeOK
<1>4. sequence' \in Nat
  BY DEF LedgerObserve, TypeOK
<1>5. complete' \in BOOLEAN
  BY DEF LedgerObserve, TypeOK
<1> QED
  BY <1>2, <1>3, <1>4, <1>5

LEMMA CompleteType ==
  ASSUME TypeOK, NEW k \in Keys, NEW r, NEW outcome,
         LedgerComplete(k, r, outcome)
  PROVE  entries' \in [Keys -> Entry] /\ sequence' \in Nat
<1>1. Completed(entries[k], outcome) \in Entry
  BY CompletedType DEF TypeOK
<1> QED
  BY <1>1 DEF LedgerComplete, TypeOK

LEMMA BeginType ==
  ASSUME TypeOK, NEW t \in Callers, NEW k \in Keys, BeginRelease(t, k)
  PROVE  TypeOK'
<1> USE DEF TypeOK, ledgerVars, sessionVars
<1>1. entries' \in [Keys -> Entry]
  <2>1. [entries[k] EXCEPT !.attempt = NextRevision,
                           !.releaseObservation = entries[k].observation] \in Entry
    BY RevisionType DEF Entry
  <2>2. \/ UNCHANGED entries
        \/ entries' = [entries EXCEPT ![k] =
               [entries[k] EXCEPT !.attempt = NextRevision,
                                  !.releaseObservation = entries[k].observation]]
    BY DEF BeginRelease
  <2> QED
    BY <2>1, <2>2
<1>2. revision' \in 0..MaxRevision /\ sequence' \in Nat
  BY RevisionType DEF BeginRelease
<1>3. complete' \in BOOLEAN
  BY DEF BeginRelease
<1>4. pc' \in [Callers -> Locations]
  BY DEF BeginRelease, Goto, Locations
<1>5. token' \in [Callers -> Nat] /\ arg' \in [Callers -> Keys]
  BY RevisionType DEF BeginRelease
<1>6. UNCHANGED <<opened, current, retired, registered, victim>>
  BY DEF BeginRelease
<1> QED
  BY <1>1, <1>2, <1>3, <1>4, <1>5, <1>6

LEMMA TypeStep == TypeOK /\ [LedgerNext]_handleVars => TypeOK'
<1> SUFFICES ASSUME TypeOK, [LedgerNext]_handleVars PROVE TypeOK'
  OBVIOUS
<1> USE LedgerAssumption
    DEF TypeOK, Locations, ledgerVars, sessionVars, threadVars, Goto
<1>1. ASSUME NEW t \in Callers, NEW k \in Keys, Report(t, k) PROVE TypeOK'
  BY <1>1 DEF Report
<1>2. ASSUME NEW t \in Callers, NEW k \in Keys, BeginRelease(t, k) PROVE TypeOK'
  BY <1>2, BeginType
<1>3. ASSUME NEW t \in Callers, Observe(t) PROVE TypeOK'
  <2>1. arg[t] \in Keys /\ (arg[t][1] \in retired) \in BOOLEAN
    OBVIOUS
  <2>2. LedgerObserve(arg[t], arg[t][1] \in retired)
    BY <1>3 DEF Observe
  <2>3. /\ entries' \in [Keys -> Entry]
        /\ revision' \in 0..MaxRevision
        /\ sequence' \in Nat
        /\ complete' \in BOOLEAN
    BY <2>1, <2>2, ObserveType
  <2> QED
    BY <1>3, <2>3 DEF Observe
<1>4. ASSUME NEW t \in Callers, ReleaseWithoutOwner(t) PROVE TypeOK'
  BY <1>4 DEF ReleaseWithoutOwner
<1>5. ASSUME NEW t \in Callers, MarkUntracked(t) PROVE TypeOK'
  BY <1>5 DEF MarkUntracked
<1>6. ASSUME NEW t \in Callers, Unregister(t) PROVE TypeOK'
  BY <1>6 DEF Unregister
<1>7. ASSUME NEW t \in Callers, CompleteRelease(t) PROVE TypeOK'
  <2>1. entries' \in [Keys -> Entry] /\ sequence' \in Nat
    BY <1>7, CompleteType DEF CompleteRelease
  <2> QED
    BY <1>7, <2>1 DEF CompleteRelease
<1>8. ASSUME NEW t \in Callers, OpenDiagnostics(t) PROVE TypeOK'
  BY <1>8 DEF OpenDiagnostics, RetireDisplaced
<1>9. ASSUME NEW t \in Callers, CloseDiagnostics(t) PROVE TypeOK'
  BY <1>9 DEF CloseDiagnostics, RetireDisplaced
<1>10. ASSUME NEW t \in Callers, RetireFlag(t) PROVE TypeOK'
  BY <1>10 DEF RetireFlag
<1>11. ASSUME NEW t \in Callers, MarkOwnerRetired(t) PROVE TypeOK'
  <2>1. \A k \in Keys : [entries[k] EXCEPT !.retired = TRUE] \in Entry
    BY DEF Entry
  <2>2. entries' \in [Keys -> Entry]
    BY <1>11, <2>1 DEF MarkOwnerRetired
  <2> QED
    BY <1>11, <2>2 DEF MarkOwnerRetired
<1>12. CASE UNCHANGED handleVars
  BY <1>12 DEF handleVars
<1> QED
  BY <1>1, <1>2, <1>3, <1>4, <1>5, <1>6, <1>7, <1>8, <1>9, <1>10, <1>11,
     <1>12 DEF LedgerNext

\* The ledger, the sessions and the threads keep their types, and no
\* revision beyond the counter's width is ever handed out.
THEOREM TypeCorrect == LedgerSpec => []TypeOK
  BY TypeInit, TypeStep, PTL DEF LedgerSpec
-----------------------------------------------------------------------------
(***************************************************************************)
(* Attempts.  Three kinds of step matter: a release that starts, one that  *)
(* completes, and all the others, which touch neither attempts nor tokens. *)
(***************************************************************************)
\* No token or attempt changes, and a thread that holds a token stays where
\* it is in its release.
AttemptFrame ==
    /\ UNCHANGED token
    /\ \A k \in Keys : /\ entries'[k].attempt = entries[k].attempt
                       /\ entries[k].tracked => entries'[k].tracked
    /\ \A t \in Callers : Releasing(t) => arg'[t] = arg[t] /\ Releasing(t)'

LEMMA FrameKeepsAttempts ==
  ASSUME TypeOK, AttemptInv, AttemptFrame
  PROVE  AttemptInv'
<1> USE DEF AttemptInv, TokensCurrent, AttemptsHeld, AttemptFrame
<1>1. \A t \in Callers : token[t] # 0 => Releasing(t) /\ arg[t] \in Keys
  BY DEF TypeOK
<1>2. TokensCurrent'
  BY <1>1
<1>3. AttemptsHeld'
  <2> SUFFICES ASSUME NEW k \in Keys, entries'[k].attempt # 0
               PROVE  \E t \in Callers : arg'[t] = k /\ token'[t] = entries'[k].attempt
    OBVIOUS
  <2>1. PICK t \in Callers : arg[t] = k /\ token[t] = entries[k].attempt
    OBVIOUS
  <2> QED
    BY <1>1, <2>1
<1> QED
  BY <1>2, <1>3

LEMMA BeginKeepsAttempts ==
  ASSUME TypeOK, AttemptInv, NEW t \in Callers, NEW k \in Keys,
         BeginRelease(t, k)
  PROVE  AttemptInv'
<1> USE DEF AttemptInv, TokensCurrent, AttemptsHeld
<1>1. token[t] = 0 /\ ~Releasing(t)
  BY DEF BeginRelease, Releasing
<1>2. \A u \in Callers \ {t} : pc'[u] = pc[u] /\ arg'[u] = arg[u]
  BY DEF BeginRelease, Goto, ledgerVars, TypeOK
<1>3. \A u \in Callers \ {t} : Releasing(u)' = Releasing(u)
  BY <1>2 DEF Releasing
<1>4. CASE UNCHANGED <<entries, token>> \/
           (UNCHANGED entries /\ token' = [token EXCEPT ![t] = 0])
  <2>1. token' = token
    BY <1>1, <1>4 DEF TypeOK
  <2> QED
    BY <1>1, <1>2, <1>3, <1>4, <2>1 DEF TypeOK
<1>5. CASE /\ entries[k].tracked /\ entries[k].attempt = 0
           /\ entries' = [entries EXCEPT
                            ![k].attempt = NextRevision,
                            ![k].releaseObservation = entries[k].observation]
           /\ token' = [token EXCEPT ![t] = NextRevision]
           /\ pc' = [pc EXCEPT ![t] = "begun"]
           /\ RevisionTaken
  <2>1. arg'[t] = k /\ token'[t] = NextRevision /\ NextRevision # 0
    BY <1>5 DEF BeginRelease, RevisionTaken, TypeOK
  <2>2. entries'[k].attempt = NextRevision /\ entries'[k].tracked
    BY <1>5 DEF TypeOK, Entry
  <2>3. \A j \in Keys \ {k} : entries'[j] = entries[j]
    BY <1>5 DEF TypeOK
  <2>4. \A u \in Callers \ {t} : token'[u] = token[u]
    BY <1>5 DEF TypeOK
  <2>5. \A u \in Callers : token[u] # 0 => arg[u] # k /\ arg[u] \in Keys
    BY <1>5 DEF TypeOK
  <2>6. Releasing(t)'
    BY <1>5 DEF Releasing, TypeOK
  <2>7. TokensCurrent'
    BY <1>2, <1>3, <2>1, <2>2, <2>3, <2>4, <2>5, <2>6
  <2>8. AttemptsHeld'
    <3> SUFFICES ASSUME NEW j \in Keys \ {k}, entries'[j].attempt # 0
                 PROVE  \E u \in Callers : arg'[u] = j /\ token'[u] = entries'[j].attempt
      BY <2>1, <2>2
    <3>1. PICK u \in Callers : arg[u] = j /\ token[u] = entries[j].attempt
      BY <2>3
    <3>2. u # t
      BY <1>1, <2>3, <3>1
    <3> QED
      BY <1>2, <2>3, <2>4, <3>1, <3>2
  <2> QED
    BY <2>7, <2>8
<1> QED
  BY <1>4, <1>5 DEF BeginRelease, Goto, ledgerVars
LEMMA CompleteKeepsAttempts ==
  ASSUME TypeOK, AttemptInv, NEW t \in Callers, CompleteRelease(t)
  PROVE  AttemptInv'
<1> USE DEF AttemptInv, TokensCurrent, AttemptsHeld
<1> DEFINE k == arg[t]
<1>1. /\ token' = [token EXCEPT ![t] = 0] /\ arg' = arg /\ Releasing(t)
      /\ \A u \in Callers \ {t} : Releasing(u)' = Releasing(u)
      /\ ~Releasing(t)'
  BY DEF CompleteRelease, Goto, Releasing, TypeOK
<1>2. token'[t] = 0 /\ \A u \in Callers \ {t} : token'[u] = token[u]
  BY <1>1 DEF TypeOK
<1>3. k \in Keys
  BY DEF TypeOK
<1>4. \A u \in Callers \ {t} : token[u] # 0 => token[t] = 0 \/ arg[u] # k
  OBVIOUS
<1>5. CASE token[t] = 0
  <2>1. entries' = entries
    BY <1>5 DEF CompleteRelease, LedgerComplete, TokenCurrent
  <2>2. token' = token
    BY <1>1, <1>5 DEF TypeOK
  <2> QED
    BY <1>1, <1>2, <2>1, <2>2
<1>6. CASE token[t] # 0
  <2>1. /\ entries' = [entries EXCEPT ![k] = Completed(entries[k], pc[t])]
        /\ entries[k] \in Entry
    BY <1>3, <1>6 DEF CompleteRelease, LedgerComplete, TokenCurrent, TypeOK
  <2>2. entries'[k] = Completed(entries[k], pc[t])
    BY <1>3, <2>1 DEF TypeOK
  <2>3. Completed(entries[k], pc[t]).attempt = 0
    BY <2>1 DEF Completed, Untracked, Entry
  <2>4. \A j \in Keys \ {k} : entries'[j] = entries[j]
    BY <2>1 DEF TypeOK
  <2>5. TokensCurrent'
    BY <1>1, <1>2, <1>4, <1>6, <2>4 DEF TypeOK
  <2>6. AttemptsHeld'
    <3> SUFFICES ASSUME NEW j \in Keys \ {k}, entries'[j].attempt # 0
                 PROVE  \E u \in Callers : arg'[u] = j /\ token'[u] = entries'[j].attempt
      BY <2>2, <2>3
    <3>1. PICK u \in Callers : arg[u] = j /\ token[u] = entries[j].attempt
      BY <2>4
    <3> QED
      BY <1>1, <1>2, <2>4, <3>1
  <2> QED
    BY <2>5, <2>6
<1> QED
  BY <1>5, <1>6

LEMMA ObserveEffect ==
  ASSUME TypeOK, NEW t \in Callers, Observe(t)
  PROVE  /\ arg[t] \in Keys /\ (arg[t][1] \in retired) \in BOOLEAN
         /\ pc[t] = "report" /\ pc' = [pc EXCEPT ![t] = "idle"]
         /\ UNCHANGED <<opened, current, retired, registered, arg, token, victim>>
         /\ ~ObservationLocked(arg[t][1])
         /\ LedgerObserve(arg[t], arg[t][1] \in retired)
<1>1. arg[t] \in Keys
  BY DEF TypeOK
<1>2. (arg[t][1] \in retired) \in BOOLEAN
  OBVIOUS
<1>3. UNCHANGED <<opened, current, retired, registered, arg, token, victim>>
  BY DEF Observe, sessionVars
<1>4. /\ pc[t] = "report" /\ pc' = [pc EXCEPT ![t] = "idle"]
      /\ ~ObservationLocked(arg[t][1])
      /\ LedgerObserve(arg[t], arg[t][1] \in retired)
  BY DEF Observe, Goto
<1> QED
  BY <1>1, <1>2, <1>3, <1>4

LEMMA ObservedKeepsAttempt ==
  ASSUME TypeOK, NEW k \in Keys, NEW r \in BOOLEAN, LedgerObserve(k, r)
  PROVE  \A j \in Keys : /\ entries'[j].attempt = entries[j].attempt
                         /\ entries[j].tracked => entries'[j].tracked
<1>1. \A e \in Entry : Observed(e, r).attempt = e.attempt /\ Observed(e, r).tracked
  BY DEF Entry, Observed
<1>2. CASE entries' = [entries EXCEPT ![k] = Observed(entries[k], r)]
  BY <1>1, <1>2 DEF TypeOK
<1>3. CASE UNCHANGED entries
  BY <1>3
<1> QED
  BY <1>2, <1>3 DEF LedgerObserve

LEMMA MarkedKeepsAttempt ==
  ASSUME TypeOK, NEW t \in Callers, MarkOwnerRetired(t), NEW k \in Keys
  PROVE  /\ entries'[k].attempt = entries[k].attempt
         /\ entries'[k].tracked = entries[k].tracked
         /\ entries'[k].observation = entries[k].observation
         /\ entries'[k].releaseObservation = entries[k].releaseObservation
<1>1. entries[k] \in Entry
  BY DEF TypeOK
<1>2. \/ entries'[k] = entries[k]
      \/ entries'[k] = [entries[k] EXCEPT !.retired = TRUE]
  BY DEF MarkOwnerRetired
<1> QED
  BY <1>1, <1>2 DEF Entry

LEMMA AttemptStep == TypeOK /\ AttemptInv /\ [LedgerNext]_handleVars => AttemptInv'
<1> SUFFICES ASSUME TypeOK, AttemptInv, [LedgerNext]_handleVars PROVE AttemptInv'
  OBVIOUS
<1> USE DEF AttemptFrame, Releasing, ledgerVars, sessionVars, threadVars, Goto
<1>1. ASSUME NEW t \in Callers, NEW k \in Keys, Report(t, k) PROVE AttemptFrame
  BY <1>1 DEF Report, TypeOK
<1>2. ASSUME NEW t \in Callers, NEW k \in Keys, BeginRelease(t, k) PROVE AttemptInv'
  BY <1>2, BeginKeepsAttempts
<1>3. ASSUME NEW t \in Callers, Observe(t) PROVE AttemptFrame
  <2>1. \A j \in Keys : /\ entries'[j].attempt = entries[j].attempt
                        /\ entries[j].tracked => entries'[j].tracked
    BY <1>3, ObserveEffect, ObservedKeepsAttempt
  <2>2. /\ pc[t] = "report" /\ pc' = [pc EXCEPT ![t] = "idle"]
        /\ token' = token /\ arg' = arg
    BY <1>3, ObserveEffect
  <2>3. \A u \in Callers : Releasing(u) => arg'[u] = arg[u] /\ Releasing(u)'
    BY <2>2 DEF TypeOK
  <2> QED
    BY <2>1, <2>2, <2>3
<1>4. ASSUME NEW t \in Callers, ReleaseWithoutOwner(t) PROVE AttemptFrame
  BY <1>4 DEF ReleaseWithoutOwner
<1>5. ASSUME NEW t \in Callers, MarkUntracked(t) PROVE AttemptFrame
  BY <1>5 DEF MarkUntracked, TypeOK
<1>6. ASSUME NEW t \in Callers, Unregister(t) PROVE AttemptFrame
  BY <1>6 DEF Unregister, TypeOK
<1>7. ASSUME NEW t \in Callers, CompleteRelease(t) PROVE AttemptInv'
  BY <1>7, CompleteKeepsAttempts
<1>8. ASSUME NEW t \in Callers, OpenDiagnostics(t) PROVE AttemptFrame
  BY <1>8 DEF OpenDiagnostics, RetireDisplaced, TypeOK
<1>9. ASSUME NEW t \in Callers, CloseDiagnostics(t) PROVE AttemptFrame
  BY <1>9 DEF CloseDiagnostics, RetireDisplaced, TypeOK
<1>10. ASSUME NEW t \in Callers, RetireFlag(t) PROVE AttemptFrame
  BY <1>10 DEF RetireFlag, TypeOK
<1>11. ASSUME NEW t \in Callers, MarkOwnerRetired(t) PROVE AttemptFrame
  <2>1. \A k \in Keys : /\ entries'[k].attempt = entries[k].attempt
                        /\ entries'[k].tracked = entries[k].tracked
    BY <1>11, MarkedKeepsAttempt
  <2> QED
    BY <1>11, <2>1 DEF MarkOwnerRetired, TypeOK
<1>12. CASE UNCHANGED handleVars
  BY <1>12 DEF handleVars, AttemptInv, TokensCurrent, AttemptsHeld
<1> QED
  BY <1>1, <1>2, <1>3, <1>4, <1>5, <1>6, <1>7, <1>8, <1>9, <1>10, <1>11,
     <1>12, FrameKeepsAttempts DEF LedgerNext

LEMMA AttemptInit == LedgerInit => AttemptInv
  BY DEF LedgerInit, AttemptInv, TokensCurrent, AttemptsHeld, Untracked

LEMMA AttemptsFollow == TypeOK /\ AttemptInv => AttemptsOwned
<1> SUFFICES ASSUME TypeOK, AttemptInv,
                    NEW k \in Keys, entries[k].attempt # 0
             PROVE  \E t \in Callers :
                       /\ Releasing(t) /\ arg[t] = k /\ token[t] = entries[k].attempt
                       /\ \A u \in Callers \ {t} :
                             ~(Releasing(u) /\ arg[u] = k /\ token[u] # 0)
  BY DEF AttemptsOwned
<1>1. PICK t \in Callers : arg[t] = k /\ token[t] = entries[k].attempt
  BY DEF AttemptInv, AttemptsHeld
<1> QED
  BY <1>1 DEF AttemptInv, TokensCurrent

LEMMA AttemptAlways == LedgerSpec => [](TypeOK /\ AttemptInv)
  BY TypeInit, AttemptInit, TypeStep, AttemptStep, PTL DEF LedgerSpec

\* A handle is never released by two threads at once, and an entry marked in
\* flight always has the one call that will take the mark away.
THEOREM AttemptsAlwaysOwned == LedgerSpec => []AttemptsOwned
  BY AttemptAlways, AttemptsFollow, PTL
-----------------------------------------------------------------------------
(***************************************************************************)
(* Coverage.                                                               *)
(***************************************************************************)
LEMMA ObserveCovers ==
  ASSUME TypeOK, RevisionsBounded, NEW k \in Keys, NEW r \in BOOLEAN,
         LedgerObserve(k, r)
  PROVE  /\ RevisionsBounded'
         /\ complete' => complete /\ entries'[k].tracked
         /\ complete' => entries'[k].observation > entries'[k].releaseObservation
         /\ \A j \in Keys \ {k} : entries'[j] = entries[j]
<1> USE DEF RevisionsBounded
<1>1. CASE /\ RevisionTaken
           /\ entries' = [entries EXCEPT ![k] = Observed(entries[k], r)]
           /\ UNCHANGED complete
  <2>1. revision' = revision + 1 /\ NextRevision = revision + 1 /\ revision \in Nat
    BY <1>1, LedgerAssumption DEF RevisionTaken, NextRevision, TypeOK
  <2>2. entries[k] \in Entry /\ \A j \in Keys : entries[j] \in Entry
    BY DEF TypeOK
  <2>3. /\ entries'[k].tracked
        /\ entries'[k].observation = revision + 1
        /\ entries'[k].releaseObservation = entries[k].releaseObservation
    <3>1. entries'[k] = Observed(entries[k], r)
      BY <1>1 DEF TypeOK
    <3> QED
      BY <2>1, <2>2, <3>1 DEF Observed, Entry
  <2>4. \A j \in Keys \ {k} : entries'[j] = entries[j]
    BY <1>1 DEF TypeOK
  <2>5. \A j \in Keys : /\ entries[j].observation \in Nat
                        /\ entries[j].releaseObservation \in Nat
    BY <2>2 DEF Entry
  <2> QED
    BY <1>1, <2>1, <2>3, <2>4, <2>5
<1>2. CASE /\ UNCHANGED entries /\ complete' = FALSE
           /\ RevisionTaken \/ UNCHANGED revision
  <2>1. \A j \in Keys : /\ entries[j].observation \in Nat
                        /\ entries[j].releaseObservation \in Nat
    BY DEF TypeOK, Entry
  <2>2. revision \in Nat /\ revision' \in Nat /\ revision <= revision'
    BY <1>2, LedgerAssumption DEF RevisionTaken, NextRevision, TypeOK
  <2> QED
    BY <1>2, <2>1, <2>2
<1> QED
  BY <1>1, <1>2 DEF LedgerObserve

\* What a step that neither reports, starts nor completes a release keeps.
CoverageFrame ==
    /\ \A k \in Keys : /\ entries'[k].tracked = entries[k].tracked
                       /\ entries'[k].observation = entries[k].observation
                       /\ entries'[k].releaseObservation = entries[k].releaseObservation
    /\ UNCHANGED <<revision, token>>
    /\ complete' => complete
    /\ registered' \subseteq registered
    /\ \A t \in Callers :
          /\ pc[t] = "report" => pc'[t] = "report" /\ arg'[t] = arg[t]
          /\ pc'[t] = "succeeded" =>
                /\ arg'[t] = arg[t]
                /\ pc[t] = "succeeded" \/ arg[t] \notin registered'
          /\ Releasing(t)' => Releasing(t) \/ token[t] # 0 \/ ~complete'

LEMMA FrameKeepsCoverage ==
  ASSUME TypeOK, CoverageInv, CoverageFrame
  PROVE  CoverageInv'
<1> USE DEF CoverageInv, CoverageFrame
<1>1. \A t \in Callers : arg[t] \in Keys
  BY DEF TypeOK
<1>2. \A k : ReportPending(k) => ReportPending(k)'
  BY DEF ReportPending
<1>3. RevisionsBounded'
  BY DEF RevisionsBounded
<1>4. UntrackedIncomplete'
  BY DEF UntrackedIncomplete
<1>5. ReregistrationSeen'
  <2> SUFFICES ASSUME NEW t \in Callers,
                      complete', pc'[t] = "succeeded", arg'[t] \in registered'
               PROVE  \/ ReportPending(arg[t])'
                      \/ entries'[arg'[t]].observation
                           > entries'[arg'[t]].releaseObservation
    BY DEF ReregistrationSeen
  <2>1. complete
    BY Zenon
  <2>2. arg'[t] = arg[t] /\ (pc[t] = "succeeded" \/ arg[t] \notin registered')
    BY Zenon
  <2>3. arg[t] \in registered /\ pc[t] = "succeeded"
    BY <2>2
  <2>4. \/ ReportPending(arg[t])
        \/ entries[arg[t]].observation > entries[arg[t]].releaseObservation
    BY <2>1, <2>3 DEF ReregistrationSeen
  <2>5. ReportPending(arg[t]) => ReportPending(arg[t])'
    BY <2>2 DEF ReportPending
  <2> QED
    BY <1>1, <2>2, <2>4, <2>5
<1>6. CoverageExact'
  <2> SUFFICES ASSUME complete', NEW k \in registered'
               PROVE  entries'[k].tracked \/ ReportPending(k)'
    BY DEF CoverageExact
  <2>1. complete /\ k \in registered /\ k \in Keys
    BY DEF TypeOK
  <2>2. entries[k].tracked \/ ReportPending(k)
    BY <2>1 DEF CoverageExact
  <2> QED
    BY <1>2, <2>1, <2>2
<1> QED
  BY <1>3, <1>4, <1>5, <1>6

LEMMA ReportKeepsCoverage ==
  ASSUME TypeOK, CoverageInv, NEW t \in Callers, NEW k \in Keys, Report(t, k)
  PROVE  CoverageInv'
<1> USE DEF CoverageInv
<1>1. /\ entries' = entries /\ revision' = revision /\ complete' = complete
      /\ token' = token /\ registered' = registered \cup {k}
      /\ pc[t] = "idle" /\ pc' = [pc EXCEPT ![t] = "report"]
      /\ arg' = [arg EXCEPT ![t] = k]
  BY DEF Report, Goto, ledgerVars
<1>2. /\ pc'[t] = "report" /\ arg'[t] = k
      /\ \A u \in Callers \ {t} : pc'[u] = pc[u] /\ arg'[u] = arg[u]
  BY <1>1 DEF TypeOK
<1>3. ReportPending(k)' /\ \A j : ReportPending(j) => ReportPending(j)'
  BY <1>1, <1>2 DEF ReportPending
<1>4. RevisionsBounded' /\ UntrackedIncomplete'
  BY <1>1, <1>2 DEF RevisionsBounded, UntrackedIncomplete, Releasing
<1>5. ReregistrationSeen'
  BY <1>1, <1>2, <1>3 DEF ReregistrationSeen
<1>6. CoverageExact'
  BY <1>1, <1>3 DEF CoverageExact
<1> QED
  BY <1>4, <1>5, <1>6

LEMMA ObserveKeepsCoverage ==
  ASSUME TypeOK, CoverageInv, NEW t \in Callers, Observe(t)
  PROVE  CoverageInv'
<1> DEFINE k == arg[t]
<1> USE DEF CoverageInv
<1>1. /\ k \in Keys /\ pc[t] = "report" /\ pc' = [pc EXCEPT ![t] = "idle"]
      /\ registered' = registered /\ arg' = arg /\ token' = token
  BY ObserveEffect
<1>2. /\ RevisionsBounded'
      /\ complete' => complete /\ entries'[k].tracked
      /\ complete' => entries'[k].observation > entries'[k].releaseObservation
      /\ \A j \in Keys \ {k} : entries'[j] = entries[j]
  BY ObserveEffect, ObserveCovers
<1>3. pc'[t] = "idle" /\ \A u \in Callers \ {t} : pc'[u] = pc[u]
  BY <1>1 DEF TypeOK
<1>4. \A j \in Keys \ {k} : ReportPending(j) => ReportPending(j)'
  BY <1>1, <1>3 DEF ReportPending
<1>5. UntrackedIncomplete'
  BY <1>1, <1>2, <1>3 DEF UntrackedIncomplete, Releasing
<1>6. ReregistrationSeen'
  <2> SUFFICES ASSUME NEW u \in Callers \ {t}, complete', pc[u] = "succeeded",
                      arg[u] \in registered
               PROVE  \/ ReportPending(arg[u])'
                      \/ entries'[arg[u]].observation > entries'[arg[u]].releaseObservation
    BY <1>1, <1>3 DEF ReregistrationSeen
  <2>1. CASE arg[u] = k
    BY <1>2, <2>1
  <2>2. CASE arg[u] # k
    <3>1. arg[u] \in Keys \ {k}
      BY <2>2 DEF TypeOK
    <3>2. \/ ReportPending(arg[u])
          \/ entries[arg[u]].observation > entries[arg[u]].releaseObservation
      BY <1>2 DEF ReregistrationSeen
    <3>3. entries'[arg[u]] = entries[arg[u]]
      BY <1>2, <3>1
    <3>4. ReportPending(arg[u]) => ReportPending(arg[u])'
      BY <1>1, <1>3, <2>2 DEF ReportPending
    <3> QED
      BY <3>2, <3>3, <3>4
  <2> QED
    BY <2>1, <2>2
<1>7. CoverageExact'
  <2> SUFFICES ASSUME complete', NEW j \in registered
               PROVE  entries'[j].tracked \/ ReportPending(j)'
    BY <1>1 DEF CoverageExact
  <2>1. CASE j = k
    BY <1>2, <2>1
  <2>2. CASE j # k
    <3>1. j \in Keys \ {k}
      BY <2>2 DEF TypeOK
    <3>2. entries[j].tracked \/ ReportPending(j)
      BY <1>2 DEF CoverageExact
    <3>3. entries'[j] = entries[j]
      BY <1>2, <3>1
    <3>4. ReportPending(j) => ReportPending(j)'
      BY <1>4, <3>1
    <3> QED
      BY <3>2, <3>3, <3>4
  <2> QED
    BY <2>1, <2>2
<1> QED
  BY <1>2, <1>5, <1>6, <1>7

LEMMA BeginEffect ==
  ASSUME TypeOK, NEW t \in Callers, NEW k \in Keys, BeginRelease(t, k)
  PROVE  /\ pc[t] = "idle" /\ registered' = registered
         /\ complete' => complete
         /\ \A u \in Callers \ {t} : pc'[u] = pc[u] /\ arg'[u] = arg[u]
                                     /\ token'[u] = token[u]
         /\ pc'[t] \in {"idle", "untracked", "begun"}
         /\ pc'[t] = "begun" => token'[t] # 0
         /\ revision' \in Nat /\ revision <= revision'
         /\ \A j \in Keys : /\ entries'[j].tracked = entries[j].tracked
                            /\ entries'[j].observation = entries[j].observation
                            /\ entries'[j].retired = entries[j].retired
         /\ \A j \in Keys : entries[j].attempt # 0 => entries'[j] = entries[j]
         /\ \A j \in Keys : \/ entries'[j] = entries[j]
                            \/ entries'[j].releaseObservation = entries[j].observation
<1> USE DEF ledgerVars, Goto
<1>1. /\ pc[t] = "idle" /\ registered' = registered
      /\ revision \in Nat /\ MaxRevision \in Nat
  BY LedgerAssumption DEF BeginRelease, TypeOK
<1>2. complete' => complete
  BY DEF BeginRelease
<1>3. /\ \A u \in Callers \ {t} : pc'[u] = pc[u] /\ arg'[u] = arg[u]
                                  /\ token'[u] = token[u]
      /\ pc'[t] \in {"idle", "untracked", "begun"}
      /\ pc'[t] = "begun" => token'[t] # 0
  BY <1>1 DEF BeginRelease, RevisionTaken, TypeOK
<1>4. revision' \in Nat /\ revision <= revision'
  BY <1>1 DEF BeginRelease, RevisionTaken, NextRevision
<1>5. CASE UNCHANGED entries
  BY <1>1, <1>2, <1>3, <1>4, <1>5
<1>6. CASE /\ entries[k].attempt = 0
           /\ entries' = [entries EXCEPT
                            ![k].attempt = NextRevision,
                            ![k].releaseObservation = entries[k].observation]
  <2>1. entries[k] \in Entry
    BY DEF TypeOK
  <2>2. /\ entries'[k].tracked = entries[k].tracked
        /\ entries'[k].observation = entries[k].observation
        /\ entries'[k].retired = entries[k].retired
        /\ entries'[k].releaseObservation = entries[k].observation
    BY <1>6, <2>1 DEF TypeOK, Entry
  <2>3. \A j \in Keys \ {k} : entries'[j] = entries[j]
    BY <1>6 DEF TypeOK
  <2> QED
    BY <1>1, <1>2, <1>3, <1>4, <1>6, <2>2, <2>3
<1> QED
  BY <1>5, <1>6 DEF BeginRelease

LEMMA BeginKeepsCoverage ==
  ASSUME TypeOK, AttemptInv, CoverageInv, NEW t \in Callers, NEW k \in Keys,
         BeginRelease(t, k)
  PROVE  CoverageInv'
<1> USE DEF CoverageInv
<1>1. RevisionsBounded'
  <2>1. revision \in Nat /\ \A j \in Keys : /\ entries[j].observation \in Nat
                                            /\ entries[j].releaseObservation \in Nat
    BY DEF TypeOK, Entry
  <2>2. revision' \in Nat /\ revision <= revision'
    BY BeginEffect
  <2>3. \A j \in Keys : /\ entries'[j].observation = entries[j].observation
                        /\ \/ entries'[j] = entries[j]
                           \/ entries'[j].releaseObservation = entries[j].observation
    BY BeginEffect
  <2> QED
    BY <2>1, <2>2, <2>3 DEF RevisionsBounded
<1>2. UntrackedIncomplete'
  BY BeginEffect DEF UntrackedIncomplete, Releasing
<1>3. \A j : ReportPending(j) => ReportPending(j)'
  BY BeginEffect DEF ReportPending
<1>4. ReregistrationSeen'
  <2> SUFFICES ASSUME NEW u \in Callers, complete', pc'[u] = "succeeded",
                      arg'[u] \in registered'
               PROVE  \/ ReportPending(arg[u])'
                      \/ entries'[arg'[u]].observation > entries'[arg'[u]].releaseObservation
    BY DEF ReregistrationSeen, ReportPending
  <2>1. u # t /\ pc[u] = "succeeded" /\ arg'[u] = arg[u] /\ arg[u] \in registered
    BY BeginEffect
  <2>2. complete
    BY BeginEffect
  <2>3. token[u] # 0
    BY <2>1, <2>2 DEF UntrackedIncomplete, Releasing
  <2>4. arg[u] \in Keys /\ entries[arg[u]].attempt # 0
    BY <2>3 DEF AttemptInv, TokensCurrent, TypeOK
  <2>5. entries'[arg[u]] = entries[arg[u]]
    BY <2>4, BeginEffect
  <2>6. \/ ReportPending(arg[u])
        \/ entries[arg[u]].observation > entries[arg[u]].releaseObservation
    BY <2>1, <2>2 DEF ReregistrationSeen
  <2> QED
    BY <1>3, <2>1, <2>5, <2>6
<1>5. CoverageExact'
  <2> SUFFICES ASSUME complete', NEW j \in registered'
               PROVE  entries'[j].tracked \/ ReportPending(j)'
    BY DEF CoverageExact
  <2>1. complete
    BY BeginEffect
  <2>2. j \in registered /\ j \in Keys
    BY BeginEffect DEF TypeOK
  <2>3. entries[j].tracked \/ ReportPending(j)
    BY <2>1, <2>2 DEF CoverageExact
  <2>4. entries'[j].tracked = entries[j].tracked
    BY <2>2, BeginEffect
  <2> QED
    BY <1>3, <2>3, <2>4
<1> QED
  BY <1>1, <1>2, <1>4, <1>5

LEMMA CompleteKeepsCoverage ==
  ASSUME TypeOK, AttemptInv, CoverageInv, NEW t \in Callers, CompleteRelease(t)
  PROVE  CoverageInv'
<1> DEFINE k == arg[t]
<1> USE DEF CoverageInv
<1>1. /\ UNCHANGED <<revision, complete, registered, arg>>
      /\ pc[t] \in {"succeeded", "failed", "unavailable"}
      /\ pc' = [pc EXCEPT ![t] = "idle"]
      /\ token' = [token EXCEPT ![t] = 0]
      /\ k \in Keys
  BY DEF CompleteRelease, Goto, TypeOK
<1>2. /\ pc'[t] = "idle"
      /\ \A u \in Callers \ {t} : pc'[u] = pc[u] /\ token'[u] = token[u]
  BY <1>1 DEF TypeOK
<1>3. \A j : ReportPending(j) => ReportPending(j)'
  BY <1>1, <1>2 DEF ReportPending
<1>4. UntrackedIncomplete'
  BY <1>1, <1>2 DEF UntrackedIncomplete, Releasing
<1>5. \/ entries' = entries
      \/ /\ token[t] # 0 /\ entries[k].tracked
         /\ entries' = [entries EXCEPT ![k] = Completed(entries[k], pc[t])]
  BY DEF CompleteRelease, LedgerComplete, TokenCurrent
<1>6. \A j \in Keys \ {k} : entries'[j] = entries[j]
  BY <1>5 DEF TypeOK
<1>7. \/ entries'[k] = entries[k]
      \/ /\ pc[t] = "succeeded" /\ entries'[k] = Untracked
         /\ entries[k].observation = entries[k].releaseObservation
      \/ entries[k].tracked /\ entries'[k] = [entries[k] EXCEPT !.attempt = 0]
  BY <1>1, <1>5 DEF TypeOK, Completed
<1>8. RevisionsBounded'
  <2>1. entries[k] \in Entry /\ revision \in Nat
    BY <1>1, LedgerAssumption DEF TypeOK
  <2>2. /\ entries'[k].observation \in {0, entries[k].observation}
        /\ entries'[k].releaseObservation \in {0, entries[k].releaseObservation}
    BY <1>7, <2>1 DEF Entry, Untracked
  <2>3. entries'[k].observation <= revision /\ entries'[k].releaseObservation <= revision
    BY <1>1, <2>1, <2>2 DEF RevisionsBounded
  <2> QED
    BY <1>1, <1>6, <2>3 DEF RevisionsBounded
<1>9. ReregistrationSeen'
  <2> SUFFICES ASSUME NEW u \in Callers \ {t}, complete, pc[u] = "succeeded",
                      arg[u] \in registered
               PROVE  \/ ReportPending(arg[u])'
                      \/ entries'[arg[u]].observation > entries'[arg[u]].releaseObservation
    BY <1>1, <1>2 DEF ReregistrationSeen
  <2>1. token[u] # 0
    BY DEF UntrackedIncomplete, Releasing
  <2>2. entries'[arg[u]] = entries[arg[u]]
    <3>1. CASE arg[u] = k
      BY <1>5, <2>1, <3>1 DEF AttemptInv, TokensCurrent
    <3>2. CASE arg[u] # k
      BY <1>6, <3>2 DEF TypeOK
    <3> QED
      BY <3>1, <3>2
  <2>3. \/ ReportPending(arg[u])
        \/ entries[arg[u]].observation > entries[arg[u]].releaseObservation
    BY DEF ReregistrationSeen
  <2>4. ReportPending(arg[u]) => ReportPending(arg[u])'
    BY <1>1, <1>2 DEF ReportPending
  <2> QED
    BY <2>2, <2>3, <2>4
<1>10. CoverageExact'
  <2> SUFFICES ASSUME complete, NEW j \in registered
               PROVE  entries'[j].tracked \/ ReportPending(j)'
    BY <1>1 DEF CoverageExact
  <2>1. entries[j].tracked \/ ReportPending(j)
    BY DEF CoverageExact
  <2>2. CASE j # k
    <3>1. entries'[j] = entries[j]
      BY <1>6, <2>2 DEF TypeOK
    <3> QED
      BY <1>3, <2>1, <3>1
  <2>3. CASE j = k /\ entries'[k] = entries[k]
    BY <1>3, <2>1, <2>3
  <2>4. CASE /\ j = k /\ pc[t] = "succeeded"
             /\ entries[k].observation = entries[k].releaseObservation
    <3>1. entries[k].observation \in Nat
      BY <1>1 DEF TypeOK, Entry
    <3>2. ReportPending(k)
      BY <2>4, <3>1 DEF ReregistrationSeen
    <3> QED
      BY <1>3, <2>4, <3>2
  <2>5. CASE j = k /\ entries[k].tracked /\ entries'[k] = [entries[k] EXCEPT !.attempt = 0]
    <3>1. entries[k] \in Entry
      BY <1>1 DEF TypeOK
    <3>2. entries'[k].tracked
      BY <2>5, <3>1 DEF Entry
    <3> QED
      BY <2>5, <3>2
  <2> QED
    BY <1>7, <2>2, <2>3, <2>4, <2>5
<1> QED
  BY <1>4, <1>8, <1>9, <1>10

LEMMA CoverageStep ==
  TypeOK /\ AttemptInv /\ CoverageInv /\ [LedgerNext]_handleVars => CoverageInv'
<1> SUFFICES ASSUME TypeOK, AttemptInv, CoverageInv, [LedgerNext]_handleVars
             PROVE  CoverageInv'
  OBVIOUS
<1> USE DEF CoverageFrame, Releasing, ledgerVars, sessionVars, threadVars, Goto
<1>1. ASSUME NEW t \in Callers, NEW k \in Keys, Report(t, k) PROVE CoverageInv'
  BY <1>1, ReportKeepsCoverage
<1>2. ASSUME NEW t \in Callers, NEW k \in Keys, BeginRelease(t, k) PROVE CoverageInv'
  BY <1>2, BeginKeepsCoverage
<1>3. ASSUME NEW t \in Callers, Observe(t) PROVE CoverageInv'
  BY <1>3, ObserveKeepsCoverage
<1>4. ASSUME NEW t \in Callers, ReleaseWithoutOwner(t) PROVE CoverageFrame
  BY <1>4 DEF ReleaseWithoutOwner
<1>5. ASSUME NEW t \in Callers, MarkUntracked(t) PROVE CoverageFrame
  BY <1>5 DEF MarkUntracked, TypeOK
<1>6. ASSUME NEW t \in Callers, Unregister(t) PROVE CoverageFrame
  BY <1>6 DEF Unregister, TypeOK
<1>7. ASSUME NEW t \in Callers, CompleteRelease(t) PROVE CoverageInv'
  BY <1>7, CompleteKeepsCoverage
<1>8. ASSUME NEW t \in Callers, OpenDiagnostics(t) PROVE CoverageFrame
  BY <1>8 DEF OpenDiagnostics, RetireDisplaced, TypeOK
<1>9. ASSUME NEW t \in Callers, CloseDiagnostics(t) PROVE CoverageFrame
  BY <1>9 DEF CloseDiagnostics, RetireDisplaced, TypeOK
<1>10. ASSUME NEW t \in Callers, RetireFlag(t) PROVE CoverageFrame
  BY <1>10 DEF RetireFlag, TypeOK
<1>11. ASSUME NEW t \in Callers, MarkOwnerRetired(t) PROVE CoverageFrame
  <2>1. \A k \in Keys : /\ entries'[k].tracked = entries[k].tracked
                        /\ entries'[k].observation = entries[k].observation
                        /\ entries'[k].releaseObservation = entries[k].releaseObservation
    BY <1>11, MarkedKeepsAttempt
  <2> QED
    BY <1>11, <2>1 DEF MarkOwnerRetired, TypeOK
<1>12. ASSUME UNCHANGED handleVars PROVE CoverageFrame
  BY <1>12 DEF handleVars
<1> QED
  BY <1>1, <1>2, <1>3, <1>4, <1>5, <1>6, <1>7, <1>8, <1>9, <1>10, <1>11,
     <1>12, FrameKeepsCoverage DEF LedgerNext

LEMMA CoverageInit == LedgerInit => CoverageInv
  BY LedgerAssumption DEF LedgerInit, CoverageInv, RevisionsBounded, UntrackedIncomplete,
     ReregistrationSeen, CoverageExact, Releasing, Untracked

\* While the ledger calls itself complete, no registration XAML holds is
\* missing from it, whatever reports and releases overlap.
THEOREM CoverageAlwaysExact == LedgerSpec => []CoverageExact
<1>1. CoverageInv => CoverageExact
  BY DEF CoverageInv
<1> QED
  BY <1>1, CoverageInit, CoverageStep, AttemptAlways, PTL DEF LedgerSpec

-----------------------------------------------------------------------------
(***************************************************************************)
(* Retirement.                                                             *)
(***************************************************************************)
\* Entries of retired owners keep their flag; threads that retire somebody,
\* the sessions and the flags stay as they are.
RetirementFrame ==
    /\ UNCHANGED <<opened, current, retired>>
    /\ \A k \in Keys : entries'[k].tracked =>
          \/ entries'[k].retired
          \/ entries[k].tracked /\ ~entries[k].retired
    /\ \A t \in Callers :
          pc[t] \in {"retire", "mark"} => pc'[t] = pc[t] /\ victim'[t] = victim[t]

LEMMA FrameKeepsRetirement ==
  ASSUME TypeOK, RetirementInv, RetirementFrame
  PROVE  RetirementInv'
<1> USE DEF RetirementInv, RetirementFrame
<1>1. DisplacedRetired'
  BY DEF DisplacedRetired
<1>2. RetiredFlagged'
  <2> SUFFICES ASSUME NEW o \in retired, ~ObservationLocked(o)',
                      NEW h \in Handles, entries'[<<o, h>>].tracked
               PROVE  entries'[<<o, h>>].retired
    BY DEF RetiredFlagged
  <2>1. ~ObservationLocked(o)
    BY DEF ObservationLocked
  <2>2. <<o, h>> \in Keys
    BY DEF TypeOK, Keys
  <2>3. entries[<<o, h>>].tracked => entries[<<o, h>>].retired
    BY <2>1 DEF RetiredFlagged
  <2> QED
    BY <2>2, <2>3
<1> QED
  BY <1>1, <1>2

LEMMA ObserveKeepsRetirement ==
  ASSUME TypeOK, RetirementInv, NEW t \in Callers, Observe(t)
  PROVE  RetirementInv'
<1> DEFINE k == arg[t]
<1> USE DEF RetirementInv
<1>1. /\ k \in Keys /\ pc[t] = "report" /\ pc' = [pc EXCEPT ![t] = "idle"]
      /\ UNCHANGED <<opened, current, retired, victim>>
      /\ ~ObservationLocked(k[1])
  BY ObserveEffect
<1>2. \A u \in Callers : /\ pc'[u] = "retire" <=> pc[u] = "retire"
                         /\ pc'[u] = "mark" <=> pc[u] = "mark"
  BY <1>1 DEF TypeOK
<1>3. DisplacedRetired'
  BY <1>1, <1>2 DEF DisplacedRetired
<1>4. \/ entries' = entries
      \/ entries' = [entries EXCEPT ![k] = Observed(entries[k], k[1] \in retired)]
  BY ObserveEffect DEF LedgerObserve
<1>5. \A j \in Keys \ {k} : entries'[j] = entries[j]
  BY <1>4 DEF TypeOK
<1>6. \A e \in Entry : Observed(e, TRUE).retired
  BY DEF Observed, Entry
<1>7. RetiredFlagged'
  <2> SUFFICES ASSUME NEW o \in retired, ~ObservationLocked(o)',
                      NEW h \in Handles, entries'[<<o, h>>].tracked
               PROVE  entries'[<<o, h>>].retired
    BY <1>1 DEF RetiredFlagged
  <2>1. ~ObservationLocked(o)
    BY <1>1, <1>2 DEF ObservationLocked
  <2>2. <<o, h>> \in Keys
    BY DEF TypeOK, Keys
  <2>3. entries[<<o, h>>].tracked => entries[<<o, h>>].retired
    BY <2>1 DEF RetiredFlagged
  <2>4. CASE entries'[<<o, h>>] = entries[<<o, h>>]
    BY <2>3, <2>4
  <2>5. CASE /\ <<o, h>> = k
             /\ entries' = [entries EXCEPT ![k] = Observed(entries[k], k[1] \in retired)]
    <3>1. (k[1] \in retired) = TRUE
      BY <2>5
    <3>2. entries'[k] = Observed(entries[k], k[1] \in retired)
      BY <1>1, <2>5 DEF TypeOK
    <3>3. entries[k] \in Entry
      BY <1>1 DEF TypeOK
    <3>4. entries'[k] = Observed(entries[k], TRUE)
      BY <3>1, <3>2
    <3> QED
      BY <1>6, <2>5, <3>3, <3>4
  <2> QED
    BY <1>4, <1>5, <2>2, <2>4, <2>5
<1> QED
  BY <1>3, <1>7

LEMMA DisplaceKeepsRetirement ==
  ASSUME TypeOK, RetirementInv, NEW t \in Callers,
         OpenDiagnostics(t) \/ CloseDiagnostics(t)
  PROVE  RetirementInv'
<1> USE DEF RetirementInv
<1>1. /\ entries' = entries /\ retired' = retired /\ pc[t] = "idle"
      /\ current' = NoOwner \/ current' \notin opened
      /\ opened' \subseteq opened \cup {current'}
  BY DEF OpenDiagnostics, CloseDiagnostics, ledgerVars
<1>2. \/ current = NoOwner /\ UNCHANGED <<pc, victim>>
      \/ /\ current # NoOwner
         /\ victim' = [victim EXCEPT ![t] = current]
         /\ pc' = [pc EXCEPT ![t] = "retire"]
  BY DEF OpenDiagnostics, CloseDiagnostics, RetireDisplaced, Goto
<1>3. \A u \in Callers \ {t} : pc'[u] = pc[u] /\ victim'[u] = victim[u]
  BY <1>2 DEF TypeOK
<1>4. current # NoOwner => pc'[t] = "retire" /\ victim'[t] = current
  BY <1>2 DEF TypeOK
<1>5. NoOwner \notin opened
  BY LedgerAssumption DEF TypeOK
<1>6. DisplacedRetired'
  <2> SUFFICES ASSUME NEW o \in opened' \ {current'}, o \notin retired
               PROVE  \E u \in Callers : pc'[u] = "retire" /\ victim'[u] = o
    BY <1>1 DEF DisplacedRetired
  <2>1. o \in opened
    BY <1>1
  <2>2. CASE o = current
    BY <1>4, <1>5, <2>1, <2>2
  <2>3. CASE o # current
    <3>1. PICK u \in Callers : pc[u] = "retire" /\ victim[u] = o
      BY <2>1, <2>3 DEF DisplacedRetired
    <3> QED
      BY <1>1, <1>3, <3>1
  <2> QED
    BY <2>2, <2>3
<1>7. RetiredFlagged'
  <2>1. \A o : ObservationLocked(o) => ObservationLocked(o)'
    BY <1>1, <1>3 DEF ObservationLocked
  <2> QED
    BY <1>1, <2>1 DEF RetiredFlagged
<1> QED
  BY <1>6, <1>7

LEMMA RetireKeepsRetirement ==
  ASSUME TypeOK, RetirementInv, NEW t \in Callers, RetireFlag(t)
  PROVE  RetirementInv'
<1> USE DEF RetirementInv
<1>1. /\ entries' = entries /\ retired' = retired \cup {victim[t]}
      /\ UNCHANGED <<opened, current, victim>>
      /\ pc[t] = "retire" /\ pc' = [pc EXCEPT ![t] = "mark"]
  BY DEF RetireFlag, Goto, ledgerVars
<1>2. pc'[t] = "mark" /\ \A u \in Callers \ {t} : pc'[u] = pc[u]
  BY <1>1 DEF TypeOK
<1>3. DisplacedRetired'
  BY <1>1, <1>2 DEF DisplacedRetired
<1>4. /\ ObservationLocked(victim[t])'
      /\ \A o : ObservationLocked(o) => ObservationLocked(o)'
  BY <1>1, <1>2 DEF ObservationLocked
<1> QED
  BY <1>1, <1>3, <1>4 DEF RetiredFlagged

LEMMA MarkKeepsRetirement ==
  ASSUME TypeOK, RetirementInv, NEW t \in Callers, MarkOwnerRetired(t)
  PROVE  RetirementInv'
<1> USE DEF RetirementInv
<1>1. /\ UNCHANGED <<opened, current, retired, victim>>
      /\ pc[t] = "mark" /\ pc' = [pc EXCEPT ![t] = "idle"]
  BY DEF MarkOwnerRetired, Goto, sessionVars
<1>2. \A u \in Callers \ {t} : pc'[u] = pc[u]
  BY <1>1 DEF TypeOK
<1>3. DisplacedRetired'
  BY <1>1, <1>2 DEF DisplacedRetired
<1>4. RetiredFlagged'
  <2> SUFFICES ASSUME NEW o \in retired, ~ObservationLocked(o)',
                      NEW h \in Handles, entries'[<<o, h>>].tracked
               PROVE  entries'[<<o, h>>].retired
    BY <1>1 DEF RetiredFlagged
  <2> DEFINE k == <<o, h>>
  <2>1. k \in Keys /\ k[1] = o
    BY DEF TypeOK, Keys
  <2>2. entries[k] \in Entry
    BY <2>1 DEF TypeOK
  <2>3. \/ entries'[k] = entries[k] /\ k \notin ToMark(victim[t])
        \/ entries'[k] = [entries[k] EXCEPT !.retired = TRUE]
    BY <2>1 DEF MarkOwnerRetired
  <2>4. CASE entries'[k] = [entries[k] EXCEPT !.retired = TRUE]
    BY <2>2, <2>4 DEF Entry
  <2>5. CASE entries'[k] = entries[k] /\ k \notin ToMark(victim[t])
    <3>1. CASE o = victim[t]
      BY <2>1, <2>5, <3>1 DEF ToMark
    <3>2. CASE o # victim[t]
      <4>1. ~ObservationLocked(o)
        BY <1>1, <1>2, <3>2 DEF ObservationLocked
      <4> QED
        BY <2>5, <4>1 DEF RetiredFlagged
    <3> QED
      BY <3>1, <3>2
  <2> QED
    BY <2>3, <2>4, <2>5
<1> QED
  BY <1>3, <1>4

LEMMA RetirementStep == TypeOK /\ RetirementInv /\ [LedgerNext]_handleVars => RetirementInv'
<1> SUFFICES ASSUME TypeOK, RetirementInv, [LedgerNext]_handleVars PROVE RetirementInv'
  OBVIOUS
<1> USE DEF RetirementFrame, ledgerVars, sessionVars, threadVars, Goto
<1>1. ASSUME NEW t \in Callers, NEW k \in Keys, Report(t, k) PROVE RetirementFrame
  BY <1>1 DEF Report, TypeOK
<1>2. ASSUME NEW t \in Callers, NEW k \in Keys, BeginRelease(t, k) PROVE RetirementFrame
  <2>1. \A j \in Keys : /\ entries'[j].tracked = entries[j].tracked
                        /\ entries'[j].retired = entries[j].retired
    BY <1>2, BeginEffect
  <2>2. /\ UNCHANGED <<opened, current, retired, victim>> /\ pc[t] = "idle"
        /\ \A u \in Callers \ {t} : pc'[u] = pc[u]
    BY <1>2, BeginEffect DEF BeginRelease
  <2> QED
    BY <2>1, <2>2
<1>3. ASSUME NEW t \in Callers, Observe(t) PROVE RetirementInv'
  BY <1>3, ObserveKeepsRetirement
<1>4. ASSUME NEW t \in Callers, ReleaseWithoutOwner(t) PROVE RetirementFrame
  BY <1>4 DEF ReleaseWithoutOwner
<1>5. ASSUME NEW t \in Callers, MarkUntracked(t) PROVE RetirementFrame
  BY <1>5 DEF MarkUntracked, TypeOK
<1>6. ASSUME NEW t \in Callers, Unregister(t) PROVE RetirementFrame
  BY <1>6 DEF Unregister, TypeOK
<1>7. ASSUME NEW t \in Callers, CompleteRelease(t) PROVE RetirementFrame
  <2>1. arg[t] \in Keys /\ entries[arg[t]] \in Entry
    BY DEF TypeOK
  <2>2. \/ entries' = entries
        \/ entries' = [entries EXCEPT ![arg[t]] = Completed(entries[arg[t]], pc[t])]
    BY <1>7 DEF CompleteRelease, LedgerComplete
  <2>3. /\ Completed(entries[arg[t]], pc[t]).tracked => entries[arg[t]].tracked
        /\ Completed(entries[arg[t]], pc[t]).tracked =>
              Completed(entries[arg[t]], pc[t]).retired = entries[arg[t]].retired
    BY <2>1 DEF Completed, Untracked, Entry
  <2>4. \A k \in Keys : entries'[k].tracked =>
                           \/ entries'[k].retired
                           \/ entries[k].tracked /\ ~entries[k].retired
    BY <2>1, <2>2, <2>3 DEF TypeOK
  <2> QED
    BY <1>7, <2>4 DEF CompleteRelease, TypeOK
<1>8. ASSUME NEW t \in Callers, OpenDiagnostics(t) PROVE RetirementInv'
  BY <1>8, DisplaceKeepsRetirement
<1>9. ASSUME NEW t \in Callers, CloseDiagnostics(t) PROVE RetirementInv'
  BY <1>9, DisplaceKeepsRetirement
<1>10. ASSUME NEW t \in Callers, RetireFlag(t) PROVE RetirementInv'
  BY <1>10, RetireKeepsRetirement
<1>11. ASSUME NEW t \in Callers, MarkOwnerRetired(t) PROVE RetirementInv'
  BY <1>11, MarkKeepsRetirement
<1>12. ASSUME UNCHANGED handleVars PROVE RetirementFrame
  BY <1>12 DEF handleVars
<1> QED
  BY <1>1, <1>2, <1>3, <1>4, <1>5, <1>6, <1>7, <1>8, <1>9, <1>10, <1>11,
     <1>12, FrameKeepsRetirement DEF LedgerNext

LEMMA RetirementInit == LedgerInit => RetirementInv
  BY DEF LedgerInit, RetirementInv, RetiredFlagged, DisplacedRetired

LEMMA RetirementFollows == TypeOK /\ RetirementInv => ResidualExact
  BY DEF RetirementInv, RetiredFlagged, DisplacedRetired, ResidualExact,
         ObservationLocked

\* Whatever session is displaced, and whatever reports of it are still on
\* their way, its outstanding handles are counted as residual.
THEOREM ResidualAlwaysExact == LedgerSpec => []ResidualExact
  BY TypeInit, TypeStep, RetirementInit, RetirementStep, RetirementFollows,
     PTL DEF LedgerSpec

-----------------------------------------------------------------------------
\* Only four of the ledger's methods write an entry.
LEMMA SequenceStep ==
    ASSUME TypeOK, [LedgerNext]_handleVars, entries' # entries
    PROVE  sequence' > sequence
<1>1. sequence \in Nat /\ entries \in [Keys -> Entry]
  BY DEF TypeOK
<1>2. CASE UNCHANGED entries
  BY <1>2
<1>3. ASSUME NEW t \in Callers, Observe(t)
      PROVE  UNCHANGED entries \/ sequence' = sequence + 1
  BY <1>3 DEF Observe, LedgerObserve
<1>4. ASSUME NEW t \in Callers, NEW k \in Keys, BeginRelease(t, k)
      PROVE  UNCHANGED entries \/ sequence' = sequence + 1
  BY <1>4 DEF BeginRelease, ledgerVars
<1>5. ASSUME NEW t \in Callers, CompleteRelease(t)
      PROVE  UNCHANGED entries \/ sequence' = sequence + 1
  BY <1>5 DEF CompleteRelease, LedgerComplete
<1>6. ASSUME NEW t \in Callers, MarkOwnerRetired(t)
      PROVE  UNCHANGED entries \/ sequence' = sequence + 1
  <2>1. CASE ToMark(victim[t]) = {}
    <3>1. entries' = [k \in Keys |-> entries[k]]
      BY <1>6, <2>1 DEF MarkOwnerRetired
    <3> QED BY <3>1, <1>1
  <2>2. CASE ToMark(victim[t]) # {}
    BY <1>6, <2>2 DEF MarkOwnerRetired
  <2> QED BY <2>1, <2>2
<1>7. UNCHANGED entries \/ sequence' = sequence + 1
  <2>1. ASSUME NEW t \in Callers
        PROVE  /\ \A k \in Keys : Report(t, k) => UNCHANGED entries
               /\ ReleaseWithoutOwner(t) => UNCHANGED entries
               /\ MarkUntracked(t) => UNCHANGED entries
               /\ Unregister(t) => UNCHANGED entries
               /\ OpenDiagnostics(t) => UNCHANGED entries
               /\ CloseDiagnostics(t) => UNCHANGED entries
               /\ RetireFlag(t) => UNCHANGED entries
    BY DEF Report, ReleaseWithoutOwner, MarkUntracked, Unregister, OpenDiagnostics,
           CloseDiagnostics, RetireFlag, ledgerVars
  <2>2. UNCHANGED handleVars => UNCHANGED entries
    BY DEF handleVars, ledgerVars
  <2> QED BY <1>3, <1>4, <1>5, <1>6, <2>1, <2>2 DEF LedgerNext
<1> QED BY <1>1, <1>7

\* Two snapshots with the same sequence describe the same ledger, for any
\* number of sessions, handles and threads (++sequence_ in handle_ledger.cpp).
THEOREM SequenceAlwaysCounts == LedgerSpec => SequenceCounts
<1>1. TypeOK /\ [LedgerNext]_handleVars => [entries' # entries => sequence' > sequence]_handleVars
  BY SequenceStep
<1> QED BY <1>1, TypeCorrect, PTL DEF LedgerSpec, SequenceCounts
=============================================================================
