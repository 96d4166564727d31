-------------------------- MODULE ThreadableChecker --------------------------
(***************************************************************************)
(* Which functions may run in parallel (threadablechecker_IterateFinalGraph *)
(* in threadablechecker.c): not the ones that refer to a function or class *)
(* that may not, or that belong to such a class; and a class may not when  *)
(* one of its functions that the virtual machine calls by itself may not.  *)
(* The functions are visited again and again until a pass changes nothing. *)
(*                                                                         *)
(* A program is a record:                                                  *)
(*   calls, uses   the functions and the classes a function refers to      *)
(*   class         the class a function belongs to, or NoClass             *)
(*   essential     functions named init, on_destroy, to_str, to_hash or    *)
(*                 equals                                                  *)
(*   start         functions that are not marked noasync and refer to no   *)
(*                 global variable                                         *)
(*   async         functions marked async                                  *)
(* Classes start as parallel ones: nothing sets their marks.               *)
(***************************************************************************)
EXTENDS Integers

CONSTANTS FuncCount, ClassCount, \* functions and classes are numbered from 0
          Programs               \* bound: the programs to check

Funcs   == 0 .. FuncCount - 1
Classes == 0 .. ClassCount - 1
NoClass == -1
ProgramType ==
  [calls : [Funcs -> SUBSET Funcs], uses : [Funcs -> SUBSET Classes],
   class : [Funcs -> Classes \cup {NoClass}],
   essential : SUBSET Funcs, start : SUBSET Funcs, async : SUBSET Funcs]

\* A function marked async that refers to a global variable is refused before.
ASSUME ThreadableAssumption ==
  /\ FuncCount \in Nat /\ ClassCount \in Nat
  /\ Programs \subseteq {p \in ProgramType : p.async \subseteq p.start}

VARIABLE check
\* program  the program            funcs, classes  the parallel ones so far
\* at       the function to visit  changed         something changed in this pass
\* success  no function marked async was found not to be parallel

CheckOf(p) ==
  [program |-> p, funcs |-> p.start, classes |-> Classes, at |-> 0,
   changed |-> FALSE, success |-> TRUE]
CheckInit == \E p \in Programs : check = CheckOf(p)

-----------------------------------------------------------------------------
\* A reference to the function itself says nothing. The same test is made of the
\* classes, whose numbers are others: the class of the function's own number is never
\* looked at.
Others(p, i) == p.calls[i] \ {i}
OtherClasses(p, i) == p.uses[i] \ {i}

ClassLostByAny(p, i, funcs, classes) == i \notin funcs /\ p.class[i] \in classes
ClassLost(p, i, funcs, classes) == i \notin funcs /\ i \in p.essential /\ p.class[i] \in classes
FuncLost(p, i, funcs, classes) ==
  /\ i \in funcs
  /\ \/ p.class[i] # NoClass /\ p.class[i] \notin classes
     \/ ~(Others(p, i) \subseteq funcs)
     \/ ~(OtherClasses(p, i) \subseteq classes)

\* A function that is not parallel is looked at for its class only.
VisitFunc ==
  /\ check.at < FuncCount
  /\ LET p == check.program
         i == check.at
         classLost == ClassLost(p, i, check.funcs, check.classes)
         funcLost  == FuncLost(p, i, check.funcs, check.classes)
     IN check' = [check EXCEPT
          !.at = @ + 1,
          !.classes = IF classLost THEN @ \ {p.class[i]} ELSE @,
          !.funcs = IF funcLost THEN @ \ {i} ELSE @,
          !.changed = @ \/ classLost \/ funcLost,
          !.success = @ /\ ~(funcLost /\ i \in p.async)]

OnePassOnly ==
  /\ check.at = FuncCount /\ check.changed
  /\ check' = [check EXCEPT !.changed = FALSE]
NextPass ==
  /\ check.at = FuncCount /\ check.changed
  /\ check' = [check EXCEPT !.at = 0, !.changed = FALSE]

Done == check.at = FuncCount /\ ~check.changed

CheckNext == VisitFunc \/ NextPass
CheckSpec == CheckInit /\ [][CheckNext]_check

-----------------------------------------------------------------------------
CheckTypeOK ==
  check \in [program : {p \in ProgramType : p.async \subseteq p.start}, funcs : SUBSET Funcs,
             classes : SUBSET Classes, at : 0 .. FuncCount,
             changed : BOOLEAN, success : BOOLEAN]

\* Functions and classes that may run in parallel together.
SafeAt(p, i, funcs, classes) ==
  IF i \in funcs
  THEN /\ p.class[i] \in classes \cup {NoClass}
       /\ p.calls[i] \subseteq funcs /\ p.uses[i] \subseteq classes
  ELSE i \in p.essential => p.class[i] \notin classes
Safe(p, funcs, classes) == \A i \in Funcs : SafeAt(p, i, funcs, classes)

\* The exception: threadablechecker.c:469 takes the class a function uses for the
\* function itself when the two have the same number, and lets it pass.
NumbersCollide(p, i) == i \in p.uses[i]

\* At the end no parallel function refers to one, or to a class, that is not, or belongs
\* to such a class, unless the numbers collide; and the check has failed exactly when a
\* function marked async ended up otherwise.
ParallelIsSafe ==
  Done => /\ \A i \in Funcs : NumbersCollide(check.program, i)
                              \/ SafeAt(check.program, i, check.funcs, check.classes)
          /\ check.success <=> check.program.async \subseteq check.funcs

\* Whatever could be parallel together still is.
ParallelIsLargest ==
  \A funcs \in SUBSET check.program.start, classes \in SUBSET Classes :
    Safe(check.program, funcs, classes) => funcs \subseteq check.funcs /\ classes \subseteq check.classes

\* The check finds the parallel functions and classes: through any chain of calls,
\* classes and members and in whatever order the functions are visited, none is refused
\* without need, and none is left that refers to what may not run in parallel, except
\* where a function uses the class of its own number, which the code leaves out by
\* mistake (threadablechecker.c:215-510, docs/Specification/
\* Horse64 Concurrency.md:47-110).
ParallelIsExact == ParallelIsSafe /\ ParallelIsLargest
=============================================================================
