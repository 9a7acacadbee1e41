----------------------------- MODULE Exchanges -----------------------------
(***************************************************************************)
(* What the core of a client expects of its hub proxy: one call after the  *)
(* other, each served by the hub at most once, and each returning either   *)
(* what the hub answered to it, or an error, or nothing.  A call that       *)
(* returned an error may have been served, and may still be.               *)
(*                                                                         *)
(* It may be misled, and so may the calls after it for as long as they use *)
(* its connection: these return anything.                                  *)
(***************************************************************************)
EXTENDS Wire, Sequences

VARIABLES
    asked,      \* the requests of the calls so far
    answers,    \* what the hub answered to each, Null if nothing (yet)
    results,    \* what each call returned, Null if nothing yet
    misled      \* the calls that were misled

vars == <<asked, answers, results, misled>>

Failed == [type |-> "error", of |-> 0]
NilError == [type |-> "nil", of |-> 0]

\* The answers that the hub may give to a request.
AnswersTo(req) ==
    IF req.type = "SendMessage" THEN {ResponseSuccess(req.of, req.good)}
    ELSE {NoMessage} \cup {ResponseMessage(req.of, n) : n \in Contents}

Init == asked = <<>> /\ answers = <<>> /\ results = <<>> /\ misled = {}

\* The calls of one client are made one at a time.
Ask(req) ==
    /\ \A i \in DOMAIN results : results[i] # Null
    /\ asked' = Append(asked, req)
    /\ answers' = Append(answers, Null)
    /\ results' = Append(results, Null)
    /\ \/ UNCHANGED misled
       \/ Len(asked) \in misled /\ misled' = misled \cup {Len(asked) + 1}

Serve(i) ==
    /\ answers[i] = Null
    /\ \E x \in AnswersTo(asked[i]) : answers' = [answers EXCEPT ![i] = x]
    /\ UNCHANGED <<asked, results, misled>>

Return(i) ==
    /\ results[i] = Null
    /\ \E x \in {answers[i], Failed, NilError} \ {Null} :
          results' = [results EXCEPT ![i] = x]
    /\ UNCHANGED <<asked, answers, misled>>

Mislead(i) ==
    /\ results[i] = Null
    /\ misled' = misled \cup {i}
    /\ results' = [results EXCEPT ![i] = results'[i]]
    /\ results'[i] # Null
    /\ UNCHANGED <<asked, answers>>

Next ==
    \/ \E req \in RequestsOf(Len(asked) + 1) : Ask(req)
    \/ \E i \in DOMAIN asked : Serve(i) \/ Return(i) \/ Mislead(i)

Spec == Init /\ [][Next]_vars
=============================================================================
