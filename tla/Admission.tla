------------------------------ MODULE Admission ------------------------------
(***************************************************************************)
(* lifecycleAdmission (manager.go): the one-slot channel that serializes   *)
(* the lifecycle attempts of a Manager and lets a caller whose context     *)
(* ends stop waiting.                                                      *)
(*                                                                         *)
(* Each caller is a goroutine inside acquire, between acquire and release, *)
(* or outside.  The steps of acquire are separate actions, because other   *)
(* callers and cancellation run between them.  The lazy creation of the    *)
(* channel is a sync.Once, atomic for every caller, and not a step.        *)
(***************************************************************************)
EXTENDS Naturals, Contexts

CONSTANT Callers

VARIABLES
  adm,   \* where each caller is in acquire and release
  held,  \* number of tokens in the channel, of capacity one
  ctx    \* state of the context of each caller's present call

admVars == <<adm, held, ctx>>

AdmStates == {"out", "entering", "waiting", "acquired", "admitted", "refused"}

AdmTypeOK ==
  /\ adm  \in [Callers -> AdmStates]
  /\ held \in {0, 1}
  /\ ctx  \in [Callers -> Contexts]

AdmInit ==
  /\ adm  = [c \in Callers |-> "out"]
  /\ held = 0
  /\ ctx  = [c \in Callers |-> "live"]

(* A call begins, with a context that may have ended before it.            *)
Enter(c, k) ==
  /\ adm[c] = "out"
  /\ adm' = [adm EXCEPT ![c] = "entering"]
  /\ ctx' = [ctx EXCEPT ![c] = k]
  /\ UNCHANGED held

(* The first ctx.Err() of acquire.                                         *)
EntryCheck(c) ==
  /\ adm[c] = "entering"
  /\ adm' = [adm EXCEPT ![c] = IF ctx[c] = "live" THEN "waiting" ELSE "refused"]
  /\ UNCHANGED <<held, ctx>>

(* Faulty variants of the steps below, none of them part of the            *)
(* specification: each property is shown to fail with one of them in the   *)
(* place of the step it varies.                                            *)
GiveUpAndReceive(c) ==  \* also releases what the caller does not hold
  /\ adm[c] = "waiting"
  /\ ctx[c] \in Dead
  /\ held' = 0
  /\ adm'  = [adm EXCEPT ![c] = "refused"]
  /\ UNCHANGED ctx

GiveUpOnlyIfFree(c) ==  \* looks at the context once the slot is free
  /\ adm[c] = "waiting"
  /\ ctx[c] \in Dead
  /\ held = 0
  /\ adm' = [adm EXCEPT ![c] = "refused"]
  /\ UNCHANGED <<held, ctx>>

RecheckDeadKeepingToken(c) ==  \* returns the error without giving back
  /\ adm[c] = "acquired"
  /\ ctx[c] \in Dead
  /\ adm' = [adm EXCEPT ![c] = "refused"]
  /\ UNCHANGED <<held, ctx>>

(* The select sends its token.  When the context has ended too, either     *)
(* branch of the select may be the one that runs.                          *)
Take(c) ==
  /\ adm[c] = "waiting"
  /\ held = 0
  /\ held' = 1
  /\ adm'  = [adm EXCEPT ![c] = "acquired"]
  /\ UNCHANGED ctx

(* The select receives from ctx.Done().                                    *)
GiveUp(c) ==
  /\ adm[c] = "waiting"
  /\ ctx[c] \in Dead
  /\ adm' = [adm EXCEPT ![c] = "refused"]
  /\ UNCHANGED <<held, ctx>>

(* The second ctx.Err(): cancellation wins, and the token goes back.       *)
RecheckLive(c) ==
  /\ adm[c] = "acquired"
  /\ ctx[c] = "live"
  /\ adm' = [adm EXCEPT ![c] = "admitted"]
  /\ UNCHANGED <<held, ctx>>

RecheckDead(c) ==
  /\ adm[c] = "acquired"
  /\ ctx[c] \in Dead
  /\ held = 1
  /\ held' = 0
  /\ adm'  = [adm EXCEPT ![c] = "refused"]
  /\ UNCHANGED ctx

(* release: receive from the channel, blocking while it is empty.          *)
Release(c) ==
  /\ adm[c] = "admitted"
  /\ held = 1
  /\ held' = 0
  /\ adm'  = [adm EXCEPT ![c] = "out"]
  /\ UNCHANGED ctx

(* A refused caller returns the context error.                             *)
Leave(c) ==
  /\ adm[c] = "refused"
  /\ adm' = [adm EXCEPT ![c] = "out"]
  /\ UNCHANGED <<held, ctx>>

(* The context of a call in progress is canceled or reaches its deadline.  *)
Cancel(c, k) ==
  /\ adm[c] # "out"
  /\ ctx[c] = "live"
  /\ ctx' = [ctx EXCEPT ![c] = k]
  /\ UNCHANGED <<adm, held>>

Acquiring(c) == \/ EntryCheck(c)  \/ Take(c)        \/ GiveUp(c)
                \/ RecheckLive(c) \/ RecheckDead(c)

AdmNext ==
  \E c \in Callers :
    \/ \E k \in Contexts : Enter(c, k)
    \/ Acquiring(c)
    \/ Release(c)
    \/ Leave(c)
    \/ \E k \in Dead : Cancel(c, k)

AdmSpec == AdmInit /\ [][AdmNext]_admVars

(***************************************************************************)
(* Fairness.  A runnable goroutine runs, and a select with a ready case    *)
(* proceeds.  Senders blocked on a Go channel queue first in, first out,   *)
(* and a receive hands the slot to the head of the queue, so a waiter is   *)
(* not overtaken for ever: strong fairness of Take.  Nothing is assumed of *)
(* Release, which waits for the caller's own code, nor of Cancel.          *)
(***************************************************************************)
AcquireFairness ==
  \A c \in Callers : /\ WF_admVars(EntryCheck(c))
                     /\ SF_admVars(Take(c))
                     /\ WF_admVars(GiveUp(c))
                     /\ WF_admVars(RecheckLive(c))
                     /\ WF_admVars(RecheckDead(c))
                     /\ WF_admVars(Leave(c))

FairAdmSpec == AdmSpec /\ AcquireFairness

(***************************************************************************)
(* Properties.                                                             *)
(***************************************************************************)
Holds(c) == adm[c] \in {"acquired", "admitted"}

(* At most one caller is past the channel: lifecycle attempts of one       *)
(* manager never overlap, which is what lets nextAttemptID and the         *)
(* order of observer events go without a lock.                             *)
MutualExclusion == \A c, d \in Callers : Holds(c) /\ Holds(d) => c = d

(* The channel holds a token exactly while a caller owns it: a caller that *)
(* is refused after it took the token has put it back, so no token leaks   *)
(* (later callers would wait for ever) and none is received twice.         *)
TokenHasOwner == held = 1 <=> \E c \in Callers : Holds(c)

(* A caller whose context ends before it is admitted gets out of acquire,  *)
(* even if the holder of the admission never releases it.                  *)
CanceledCallerReturns ==
  \A c \in Callers :
    ctx[c] \in Dead /\ adm[c] \notin {"out", "admitted"} ~> adm[c] = "out"

(* If every admitted attempt ends, a call that enters acquire is admitted, *)
(* or leaves because its own context ended: contention alone neither       *)
(* refuses a call nor keeps it waiting for ever behind later ones.         *)
AttemptsEnd == \A c \in Callers : []<>(adm[c] # "admitted")

EveryEntryDecided ==
  AttemptsEnd => \A c \in Callers :
                   adm[c] = "entering" ~> \/ adm[c] = "admitted"
                                          \/ adm[c] = "out" /\ ctx[c] \in Dead
=============================================================================
