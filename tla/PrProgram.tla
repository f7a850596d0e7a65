------------------------------ MODULE PrProgram ------------------------------
(***************************************************************************)
(* A program of NSPR threads: the primordial thread and those it creates     *)
(* use a semaphore and one-time initialisation, interrupt and join each      *)
(* other, and end.                                                         *)
(***************************************************************************)
EXTENDS PrThread, PrSem, PrCallOnce

CONSTANT Programs   \* what the programs that are considered do

\* A semaphore has a condition of its own.
ASSUME ProgramAssumption ==
  /\ Programs \subseteq
       [takers : SUBSET Threads,                  \* who calls PR_WaitSem
        posters : SUBSET Threads,                 \* who calls PR_PostSem
        onceCalls : SUBSET (Threads \X Onces),    \* who calls PR_CallOnce for what
        joinables : SUBSET BOOLEAN,               \* what kinds of threads there are
        interruptible : SUBSET Threads]           \* whom somebody interrupts
  /\ SemCvar \notin {ExitCvar, InitCvar} \cup {Term[t] : t \in Pool}

VARIABLE program   \* the program that runs

programVars == <<clientVars, thrVars, semVars, onceVars, program>>

PrInit == ACvInit /\ ThrInit /\ SemInit /\ OnceInit /\ program \in Programs

\* Steps of its own accord.
Starts(t) ==
  \/ \E j \in program.joinables : Creates(t, j) /\ UNCHANGED <<semVars, onceVars>>
  \/ Joins(t) /\ UNCHANGED <<semVars, onceVars>>
  \/ t \in program.takers /\ WaitSem(t) /\ UNCHANGED <<thrVars, onceVars>>
  \/ t \in program.posters /\ PostSem(t) /\ UNCHANGED <<thrVars, onceVars>>
  \/ /\ \E o \in Onces : <<t, o>> \in program.onceCalls /\ OnceBegins(t, o)
     /\ UNCHANGED <<thrVars, semVars>>
  \/ t = Main /\ Cleanup /\ UNCHANGED <<semVars, onceVars>>

\* Steps of what has begun; a start function returns some time.
Proceeds(t) ==
  \/ (ThrGoesOn(t) \/ Exit(t)) /\ UNCHANGED <<semVars, onceVars>>
  \/ SemGoesOn(t) /\ UNCHANGED <<thrVars, onceVars>>
  \/ OnceGoesOn(t) /\ UNCHANGED <<thrVars, semVars>>
  \/ Relock(t) /\ UNCHANGED <<thrVars, semVars, onceVars>>
  \/ t = Main /\ MainGoesOn /\ UNCHANGED <<semVars, onceVars>>

Interrupted(u) == /\ u \in program.interruptible
                  /\ pc[u] # "none"
                  /\ InterruptThread(u)
                  /\ UNCHANGED <<thrVars, semVars, onceVars>>

PrNext == /\ \E t \in Threads : Starts(t) \/ Proceeds(t) \/ Interrupted(t)
          /\ UNCHANGED program

PrSpec == PrInit /\ [][PrNext]_programVars

\* Strong, because a thread that wants a lock competes with others for it.
PrFairness == \A t \in Threads : SF_programVars(Proceeds(t) /\ UNCHANGED program)

PrFairSpec == PrSpec /\ PrFairness

Labels == {"run"} \cup CreatePcs \cup LifePcs \cup JoinPcs \cup MainPcs
                  \cup SemPcs \cup OncePcs

PrTypeOK == /\ ACvTypeOK /\ ThrTypeOK /\ SemTypeOK /\ OnceTypeOK
            /\ pc \in [Threads -> Labels]
=============================================================================
