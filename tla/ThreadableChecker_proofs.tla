----------------------- MODULE ThreadableChecker_proofs -----------------------
(***************************************************************************)
(* The check for parallel functions keeps every function and class that    *)
(* may run in parallel, and of the others only functions that use the      *)
(* class of their own number, for every program.                           *)
(***************************************************************************)
EXTENDS ThreadableChecker, TLAPS

\* The functions this pass has visited fit what is left, unless something changed or
\* the numbers of a function and a class collide, and the check has failed exactly when a function marked async was taken out.
PassIsClean ==
  ~check.changed =>
    \A i \in Funcs : i < check.at =>
      NumbersCollide(check.program, i) \/ SafeAt(check.program, i, check.funcs, check.classes)
SuccessFits == check.success <=> check.program.async \subseteq check.funcs

IInv == CheckTypeOK /\ PassIsClean /\ SuccessFits /\ ParallelIsLargest

-----------------------------------------------------------------------------
\* The state the check starts in (threadablechecker.c:251-265).
LEMMA InitIInv == CheckInit => IInv
<1> SUFFICES ASSUME NEW p \in Programs, check = CheckOf(p)
             PROVE  IInv
    BY DEF CheckInit
<1>1. p \in ProgramType /\ p.async \subseteq p.start
    BY ThreadableAssumption
<1>2. p.start \subseteq Funcs /\ 0 \in 0 .. FuncCount
    BY <1>1, ThreadableAssumption DEF ProgramType
<1>3. CheckTypeOK
    BY <1>1, <1>2 DEF CheckTypeOK, CheckOf
<1>4. PassIsClean
    BY DEF PassIsClean, CheckOf, Funcs
<1>5. SuccessFits
    BY <1>1 DEF SuccessFits, CheckOf
<1>6. ParallelIsLargest
    BY DEF ParallelIsLargest, CheckOf
<1> QED
    BY <1>3, <1>4, <1>5, <1>6 DEF IInv

\* One visit of a function (threadablechecker.c:266-518).
LEMMA VisitIInv == IInv /\ VisitFunc => IInv'
<1> SUFFICES ASSUME IInv, VisitFunc PROVE IInv'
    OBVIOUS
<1> DEFINE p == check.program
           i == check.at
           funcs == check.funcs
           classes == check.classes
           classLost == ClassLost(p, i, funcs, classes)
           funcLost  == FuncLost(p, i, funcs, classes)
<1>1. /\ p \in ProgramType /\ p.async \subseteq p.start
      /\ i \in Funcs /\ funcs \subseteq Funcs /\ classes \subseteq Classes
      /\ check.changed \in BOOLEAN /\ check.success \in BOOLEAN
    BY ThreadableAssumption DEF IInv, CheckTypeOK, VisitFunc, Funcs
<1>2. check' = [check EXCEPT
          !.at = @ + 1,
          !.classes = IF classLost THEN @ \ {p.class[i]} ELSE @,
          !.funcs = IF funcLost THEN @ \ {i} ELSE @,
          !.changed = @ \/ classLost \/ funcLost,
          !.success = @ /\ ~(funcLost /\ i \in p.async)]
    BY DEF VisitFunc
<1>3. check \in [program : {q \in ProgramType : q.async \subseteq q.start}, funcs : SUBSET Funcs,
                 classes : SUBSET Classes, at : 0 .. FuncCount,
                 changed : BOOLEAN, success : BOOLEAN]
    BY DEF IInv, CheckTypeOK
<1> HIDE DEF classLost, funcLost
<1>4. /\ check'.program = p /\ check'.at = i + 1
      /\ check'.classes = IF classLost THEN classes \ {p.class[i]} ELSE classes
      /\ check'.funcs = IF funcLost THEN funcs \ {i} ELSE funcs
      /\ check'.changed = (check.changed \/ classLost \/ funcLost)
      /\ check'.success = (check.success /\ ~(funcLost /\ i \in p.async))
    BY <1>2, <1>3
<1>5. CheckTypeOK'
  <2>1. check'.at \in 0 .. FuncCount
    BY <1>1, <1>4, ThreadableAssumption DEF Funcs
  <2>2. check'.classes \subseteq Classes /\ check'.funcs \subseteq Funcs
    BY <1>1, <1>4
  <2>3. check'.changed \in BOOLEAN /\ check'.success \in BOOLEAN
    BY <1>1, <1>4
  <2> QED
    BY <1>2, <1>3, <1>4, <2>1, <2>2, <2>3 DEF CheckTypeOK
<1>6. PassIsClean'
  <2> SUFFICES ASSUME ~check'.changed, NEW k \in Funcs, k < check'.at,
                      ~NumbersCollide(p, k)
               PROVE  SafeAt(p, k, check'.funcs, check'.classes)
    BY <1>4 DEF PassIsClean
  <2>1. ~check.changed /\ ~classLost /\ ~funcLost
    BY <1>4
  <2>2. check'.funcs = funcs /\ check'.classes = classes
    BY <1>4, <2>1
  <2>3. CASE k = i
    BY <1>1, <2>1, <2>2, <2>3 DEF classLost, funcLost, ClassLost, FuncLost, SafeAt,
       NumbersCollide, Others, OtherClasses, NoClass
  <2>4. CASE k < i
    BY <2>1, <2>2, <2>4 DEF IInv, PassIsClean
  <2> QED
    BY <1>1, <1>4, <2>3, <2>4, ThreadableAssumption DEF Funcs
<1>7. SuccessFits'
  <2>1. check.success <=> p.async \subseteq funcs
    BY DEF IInv, SuccessFits
  <2>2. CASE funcLost
    BY <1>4, <2>1, <2>2 DEF SuccessFits
  <2>3. CASE ~funcLost
    BY <1>4, <2>1, <2>3 DEF SuccessFits
  <2> QED
    BY <2>2, <2>3
<1>8. ParallelIsLargest'
  <2> SUFFICES ASSUME NEW F \in SUBSET p.start, NEW K \in SUBSET Classes, Safe(p, F, K)
               PROVE  F \subseteq check'.funcs /\ K \subseteq check'.classes
    BY <1>4 DEF ParallelIsLargest
  <2>1. F \subseteq funcs /\ K \subseteq classes
    BY DEF IInv, ParallelIsLargest
  <2>2. SafeAt(p, i, F, K)
    BY <1>1 DEF Safe
  <2>3. classLost => p.class[i] \notin K
    BY <2>1, <2>2 DEF classLost, ClassLost, SafeAt
  <2>4. funcLost => i \notin F
    BY <2>1, <2>2 DEF funcLost, FuncLost, SafeAt, Others, OtherClasses
  <2> QED
    BY <1>4, <2>1, <2>3, <2>4
<1> QED
    BY <1>5, <1>6, <1>7, <1>8 DEF IInv

\* Another pass begins (threadablechecker.c:263-265).
LEMMA PassIInv == IInv /\ NextPass => IInv'
<1> SUFFICES ASSUME IInv, NextPass PROVE IInv'
    OBVIOUS
<1>1. check' = [check EXCEPT !.at = 0, !.changed = FALSE] /\ 0 \in 0 .. FuncCount
    BY ThreadableAssumption DEF NextPass
<1>2. CheckTypeOK'
    BY <1>1 DEF IInv, CheckTypeOK
<1>3. /\ check'.program = check.program /\ check'.funcs = check.funcs
      /\ check'.classes = check.classes /\ check'.success = check.success /\ check'.at = 0
    BY <1>1 DEF IInv, CheckTypeOK
<1>4. PassIsClean'
    BY <1>3 DEF PassIsClean, Funcs
<1>5. SuccessFits' /\ ParallelIsLargest'
    BY <1>3 DEF IInv, SuccessFits, ParallelIsLargest
<1> QED
    BY <1>2, <1>4, <1>5 DEF IInv

\* The strengthened invariant holds of every state of the check.
LEMMA Invariance == CheckSpec => []IInv
<1>1. IInv /\ [CheckNext]_check => IInv'
  <2> SUFFICES ASSUME IInv, [CheckNext]_check PROVE IInv'
    OBVIOUS
  <2>1. CASE UNCHANGED check
    BY <2>1 DEF IInv, CheckTypeOK, PassIsClean, SuccessFits, ParallelIsLargest
  <2> QED
    BY <2>1, VisitIInv, PassIInv DEF CheckNext
<1> QED
    BY <1>1, InitIInv, PTL DEF CheckSpec

-----------------------------------------------------------------------------
\* The variables of the check keep their types, for any number of functions and
\* classes (threadablechecker.c:251-518).
THEOREM TypeCorrect == CheckSpec => []CheckTypeOK
<1>1. IInv => CheckTypeOK
    BY DEF IInv
<1> QED
    BY <1>1, Invariance, PTL

\* The check keeps every function and class that may run in parallel, leaves no
\* function that refers to what may not unless it uses the class of its own number
\* (line 469), and fails exactly when a function marked async is taken out, for every
\* program (threadablechecker.c:251-518).
THEOREM ExactlyTheParallel == CheckSpec => []ParallelIsExact
<1>1. IInv => ParallelIsExact
  <2> SUFFICES ASSUME IInv PROVE ParallelIsSafe
    BY DEF IInv, ParallelIsExact
  <2> SUFFICES ASSUME Done
               PROVE  \A i \in Funcs : NumbersCollide(check.program, i)
                         \/ SafeAt(check.program, i, check.funcs, check.classes)
    BY DEF IInv, SuccessFits, ParallelIsSafe
  <2> QED
    BY ThreadableAssumption DEF IInv, PassIsClean, Done, Funcs
<1> QED
    BY <1>1, Invariance, PTL
==============================================================================
