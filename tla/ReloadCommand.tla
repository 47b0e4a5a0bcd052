---------------------------- MODULE ReloadCommand ----------------------------
(***************************************************************************)
(* ReloadCommandHandler (reload_command.go): an Opskit command that runs   *)
(* LoadFromSource on a Manager other callers use too, and turns what the   *)
(* call returned into a reply.                                             *)
(*                                                                         *)
(* A command is a call of Manager followed, once the call has returned and *)
(* released the admission, by the reply; others run in between.  The       *)
(* message, duration and attributes of a reply are left out.               *)
(***************************************************************************)
EXTENDS Manager

(* What configurationFailure may find, Nil if the handler is usable.       *)
configurationFailures == {Nil, "missing_manager", "missing_source", "pipeline_validate"}

CONSTANT HandlerFaults  \* of the handlers there are

ASSUME HandlerFaultsAssumption == HandlerFaults \subseteq configurationFailures

(* What is looked at of LoadFromSource's ManagedLoadResult.                *)
ManagedLoadResult == [attempt : AttemptRecord, apply : ApplyResult]

ASSUME ResultNilAssumption == Nil \notin ManagedLoadResult

VARIABLES
  command,  \* where each caller is in HandleCommand
  result,   \* what the load of each caller's command returned, Nil if no attempt
  reply     \* the last reply each caller got, or Nil

commandVars == <<command, result, reply>>

CommandInit ==
  /\ ManagerInit
  /\ command = [c \in Callers |-> "none"]
  /\ result  = [c \in Callers |-> Nil]
  /\ reply   = [c \in Callers |-> Nil]

(* The three replies.  id is the attempt the command's load was given, 0   *)
(* for none, and own the state of the command's context; only the          *)
(* properties look at them.                                                *)
Rejected(failure) ==
  [outcome |-> "rejected", failure |-> failure, payload |-> Nil, id |-> 0, own |-> "live"]
Failed(failure, id, own) ==
  [outcome |-> "failed", failure |-> failure, payload |-> Nil, id |-> id, own |-> own]
Completed(payload) ==
  [outcome |-> "completed", failure |-> Nil, payload |-> payload, id |-> payload.id,
   own |-> "live"]

(* NewReloadCommandResult of a load that succeeded.                        *)
ReloadCommandResult(r) ==
  [id        |-> r.attempt.id,
   state     |-> r.apply.state,
   published |-> r.apply.published,
   changed   |-> r.apply.changed,
   checksum  |-> IF r.apply.current = Nil THEN "" ELSE r.apply.current.checksum,
   revision  |-> IF r.apply.current = Nil THEN "" ELSE r.apply.current.revision]

(* The error of the call: the end of its context if it was refused, and    *)
(* otherwise that of the attempt, whose code tells its cause.              *)
loadErr(c) == IF result[c] = Nil THEN ctx[c] ELSE result[c].attempt.failure

(***************************************************************************)
(* Steps of a command.                                                     *)
(***************************************************************************)
Idle(c) == phase[c] = "idle" /\ command[c] = "none"

(* A handler without a manager rejects with no failure, and so does any    *)
(* handler asked for a command it does not have.                           *)
RejectCommand(c, fault, supported) ==
  /\ Idle(c)
  /\ fault # Nil \/ ~supported
  /\ reply' = [reply EXCEPT ![c] =
       Rejected(IF fault = "missing_manager" THEN Nil ELSE fault)]
  /\ UNCHANGED <<vars, command, result>>

HandleCommand(c, fault, supported, k) ==
  /\ Idle(c)
  /\ fault = Nil /\ supported
  /\ CallLoad(c, k)
  /\ command' = [command EXCEPT ![c] = "running"]
  /\ UNCHANGED <<result, reply>>

(* The call's own steps; its result is what its commit returned.           *)
CommandCommits(c) ==
  /\ CommitLoad(c)
  /\ result' = [result EXCEPT ![c] = [attempt |-> lastAttempt', apply |-> lastApply']]
  /\ UNCHANGED <<command, reply>>

CommandReturns(c) ==
  /\ Return(c) \/ ReturnRefused(c)
  /\ IF command[c] = "running"
     THEN command' = [command EXCEPT ![c] = "returned"] /\ UNCHANGED result
     ELSE result' = [result EXCEPT ![c] = Nil] /\ UNCHANGED command
  /\ UNCHANGED reply

(* Faulty variants, no part of the specification.                          *)
ReplyByOwnContext(c) ==  \* takes the end of its context for the failure
  IF ctx[c] \in Dead /\ loadErr(c) # Nil
  THEN Failed(ctx[c], IF result[c] = Nil THEN 0 ELSE result[c].attempt.id, ctx[c])
  ELSE IF loadErr(c) # Nil THEN Failed(loadErr(c), result[c].attempt.id, ctx[c])
  ELSE Completed(ReloadCommandResult(result[c]))

ReplyFromStatus(c) ==  \* reads what was applied from the manager
  IF loadErr(c) # Nil
  THEN Failed(loadErr(c), IF result[c] = Nil THEN 0 ELSE result[c].attempt.id, ctx[c])
  ELSE Completed(ReloadCommandResult([result[c] EXCEPT !.apply = lastApply]))

(* A context error is reported as such, whether the call was refused or    *)
(* its attempt was stopped; any other failure with the code recorded.      *)
ReplyTo(c) ==
  IF loadErr(c) \in Dead
  THEN Failed(loadErr(c), IF result[c] = Nil THEN 0 ELSE result[c].attempt.id, ctx[c])
  ELSE IF loadErr(c) # Nil \/ result[c].attempt.status # "succeeded"
  THEN Failed(loadErr(c), result[c].attempt.id, ctx[c])
  ELSE Completed(ReloadCommandResult(result[c]))

Reply(c) ==
  /\ command[c] = "returned"
  /\ reply' = [reply EXCEPT ![c] = ReplyTo(c)]
  /\ command' = [command EXCEPT ![c] = "none"]
  /\ result' = [result EXCEPT ![c] = Nil]
  /\ UNCHANGED vars

(* Everything else a caller does.                                          *)
Otherwise(c) ==
  /\ \/ Idle(c) /\ \E k \in Contexts :
          CallLoad(c, k) \/ \E r \in ExternalResults : CallApply(c, k, r)
     \/ Acquire(c)
     \/ \E k \in Dead : CancelCall(c, k)
     \/ StartLoad(c) \/ RunLoad(c) \/ AcceptExternal(c) \/ RejectExternal(c) \/ Deliver(c)
  /\ UNCHANGED commandVars

CommandStep(c) ==
  \/ \E fault \in HandlerFaults, supported \in BOOLEAN :
       \/ RejectCommand(c, fault, supported)
       \/ \E k \in Contexts : HandleCommand(c, fault, supported, k)
  \/ CommandCommits(c)
  \/ CommandReturns(c)
  \/ Reply(c)

CommandNext == \E c \in Callers : CommandStep(c) \/ Otherwise(c)

CommandSpec == CommandInit /\ [][CommandNext]_<<vars, commandVars>>

(***************************************************************************)
(* Properties.                                                             *)
(***************************************************************************)
Replied(c, outcome) == reply[c] # Nil /\ reply[c].outcome = outcome

PublishedBefore(n) ==  \* checksum of the last publication before n, if any
  {accepted[i].snapshot.checksum :
     i \in {j \in 1 .. n - 1 :
              /\ accepted[j].attempt.status = "succeeded"
              /\ \A l \in j + 1 .. n - 1 : accepted[l].attempt.status # "succeeded"}}

(* A completed reload tells of its own publication, whatever was published *)
(* since: the log has its attempt, with the checksum and revision it       *)
(* tells, and it tells of a change if the publication before differed.     *)
CompletedTellsPublication ==
  \A c \in Callers : Replied(c, "completed") =>
    LET p == reply[c].payload
    IN  /\ p.id \in DOMAIN accepted
        /\ accepted[p.id].attempt.status = "succeeded"
        /\ p.published /\ p.state = "loaded"
        /\ p.checksum = accepted[p.id].snapshot.checksum
        /\ p.revision = accepted[p.id].snapshot.revision
        /\ p.changed <=> PublishedBefore(p.id) # {p.checksum}

(* A failed reload has published nothing.  If it was recorded, the caller  *)
(* and the log give the same code, though the caller's context may have    *)
(* ended after the failure; if not, the command's own context has ended    *)
(* and the code is that of this end.                                       *)
FailedTellsFailure ==
  \A c \in Callers : Replied(c, "failed") =>
    IF reply[c].id = 0 THEN reply[c].failure \in Dead /\ reply[c].failure = reply[c].own
    ELSE /\ reply[c].id \in DOMAIN accepted
         /\ accepted[reply[c].id].attempt.status = "failed"
         /\ accepted[reply[c].id].attempt.failure = reply[c].failure
=============================================================================
