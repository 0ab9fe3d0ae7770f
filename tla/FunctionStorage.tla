--------------------------- MODULE FunctionStorage ---------------------------
(***************************************************************************)
(* What the FunctionStorage interface promises to the workers that share   *)
(* a backend (function_storage.go).  Calls of different workers overlap.   *)
(* Every call takes effect at one moment, at most once, and a call that    *)
(* returns has taken effect before and returns the result of that moment.  *)
(* A call may also fail; a failed call may or may not have taken effect,   *)
(* and may still take effect later.                                        *)
(***************************************************************************)
EXTENDS StorageOperations

CONSTANTS
    Clients,     \* callers, each with at most one call running
    MaxCalls     \* bound on the calls made

ASSUME CallsAssumption == MaxCalls \in Nat

VARIABLES
    data,      \* the stored data
    calls,     \* the calls made so far, in order
    answers    \* the answers given to calls that returned, by call number

storageVars == <<data, calls, answers>>

StorageInit ==
    /\ data = Empty
    /\ calls = <<>>
    /\ answers = <<>>

Running(c) == {i \in DOMAIN calls : calls[i].client = c /\ calls[i].status = "running"}

Call(c, op) ==
    /\ Running(c) = {}
    /\ Len(calls) < MaxCalls
    /\ calls' = Append(calls, [client |-> c, op |-> op, status |-> "running",
                               effect |-> FALSE, result |-> <<>>])
    /\ answers' = Append(answers, <<>>)
    /\ UNCHANGED data

\* A call takes effect.  A read may be evaluated again by a retry.
Effect(i) ==
    LET out == Outcome(calls[i].op, i, data)
    IN /\ \/ ~calls[i].effect
          \/ calls[i].op.kind \in ReadOnly /\ calls[i].status = "running"
       /\ data' = out.data
       /\ calls' = [calls EXCEPT ![i].effect = TRUE, ![i].result = out.result]
       /\ UNCHANGED answers

\* A scan need not be a snapshot: its answer is not part of this contract.
Return(i) ==
    /\ calls[i].status = "running"
    /\ calls[i].effect
    /\ calls' = [calls EXCEPT ![i].status = "returned"]
    /\ calls[i].op.kind # "scan" => answers'[i] = calls[i].result
    /\ answers' = [answers EXCEPT ![i] = answers'[i]]
    /\ UNCHANGED data

Fail(i) ==
    /\ calls[i].status = "running"
    /\ calls' = [calls EXCEPT ![i].status = "failed"]
    /\ UNCHANGED <<data, answers>>

StorageNext ==
    \/ \E i \in DOMAIN calls : Effect(i) \/ Return(i) \/ Fail(i)
    \/ \E c \in Clients, op \in AllOperations : Call(c, op)

StorageSpec == StorageInit /\ [][StorageNext]_storageVars
=============================================================================
