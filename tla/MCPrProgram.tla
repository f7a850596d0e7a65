----------------------------- MODULE MCPrProgram -----------------------------
(***************************************************************************)
(* Instances of PrProgram for TLC.                                         *)
(***************************************************************************)
EXTENDS PrProgram, TLC

CONSTANTS t1, t2, main, exitCv, term1, term2, semCv, initCv, o1, o2

Termination == (t1 :> term1) @@ (t2 :> term2)

LockOf == (exitCv :> ActiveLock) @@ (term1 :> TermLock) @@ (term2 :> TermLock)
            @@ (semCv :> SemLock) @@ (initCv :> InitLock)

Program(takers, posters, calls, kinds, victims) ==
  [takers |-> takers, posters |-> posters, onceCalls |-> calls, joinables |-> kinds,
   interruptible |-> victims]

\* Threads are created, joinable or not, and joined; ...
Joining == Program({}, {}, {}, BOOLEAN, {Main})

\* ... they share a semaphore; ...
Signalling == Program({t1, t2}, {Main}, {}, {FALSE}, {t1})

\* ... or they initialise what they use: one object, with interrupts, ...
Initialising ==
  Program({}, {}, {<<t1, o1>>, <<t2, o1>>, <<Main, o1>>}, {FALSE}, {t1})

\* ... or two, so that a caller is woken for an object that is not its own.
InitialisingTwo ==
  Program({}, {}, {<<t1, o1>>, <<Main, o1>>, <<t2, o2>>}, {FALSE}, {})

AllPrograms == {Joining, Signalling, Initialising, InitialisingTwo}
=============================================================================
