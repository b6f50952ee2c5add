----------------------------- MODULE NativeCall -----------------------------
(***************************************************************************)
(* The FFI call discipline of the worker (rift-embedded/src/native-call.ts *)
(* and native-binding.ts): how one call is invoked, its failure diagnosed, *)
(* its string decoded and given back.  The worker serves one call at a     *)
(* time; the main thread may post the next one meanwhile.                  *)
(***************************************************************************)
EXTENDS Naturals, Sequences

CONSTANT Calls      \* the calls: records with a field fn, the native function

VARIABLES
  inbox,            \* the calls posted to the worker and not taken yet
  worker,           \* the call being served, the step it is at, the string it holds
  lastError,        \* the library's last-error slot
  strings,          \* the strings the library has handed over
  answers           \* the answer to each call

nativeVars == <<inbox, worker, lastError, strings, answers>>

NoString == <<>>
NoAnswer == [ok |-> FALSE]
Strings  == {"result", "error"} \X Calls
Idle     == [step |-> "idle"]

StringFns == {"rift_apply_config", "rift_recorded", "rift_stub_warnings", "rift_flow_state_get",
              "rift_space_list_stubs", "rift_space_recorded", "rift_start_intercept",
              "rift_intercept_list_rules", "rift_intercept_ca_pem", "rift_serve_admin"}
NumberFns == {"rift_create_imposter", "rift_replace_stubs", "rift_delete_imposter", "rift_delete_all",
              "rift_flow_state_put", "rift_flow_state_delete", "rift_space_add_stub",
              "rift_space_delete", "rift_intercept_add_rules", "rift_intercept_clear_rules",
              "rift_intercept_export_truststore"}
VoidFns   == {"rift_stop"}

NativeTypeOK ==
  /\ inbox \in Seq(Calls)
  /\ worker = Idle \/ worker.step \in {"failed", "returned", "decoded"}
  /\ lastError \in Strings \cup {NoString}
  /\ strings \in [Strings -> {"none", "unread", "read", "unreadable", "freed", "corrupt"}]
  /\ answers \in [Calls -> [ok : BOOLEAN, of : Strings \cup {NoString}] \cup {NoAnswer}]

NativeInit ==
  /\ inbox = <<>> /\ worker = Idle /\ lastError = NoString
  /\ strings = [s \in Strings |-> "none"]
  /\ answers = [c \in Calls |-> NoAnswer]

\* Worker.postMessage of a call.
PostCall(c) == inbox' = Append(inbox, c)

Reply(c, ok, s) ==
  /\ answers' = [answers EXCEPT ![c] = [ok |-> ok, of |-> s]]
  /\ worker' = Idle

\* The library runs the call. It may throw before it returns (koffi refuses an
\* argument), return its sentinel, with or without a diagnostic in the slot, or
\* succeed.
Invoke ==
  /\ worker = Idle /\ inbox # <<>>
  /\ inbox' = Tail(inbox)
  /\ LET c == Head(inbox) IN
     \/ Reply(c, FALSE, NoString) /\ UNCHANGED <<lastError, strings>>
     \/ /\ c.fn \in NumberFns \cup VoidFns
        /\ Reply(c, TRUE, NoString) /\ UNCHANGED <<lastError, strings>>
     \/ /\ c.fn \in StringFns
        /\ strings' = [strings EXCEPT ![<<"result", c>>] = "unread"]
        /\ worker' = [step |-> "returned", call |-> c, holds |-> <<"result", c>>]
        /\ UNCHANGED <<lastError, answers>>
     \/ /\ c.fn \notin VoidFns
        /\ worker' = [step |-> "failed", call |-> c, holds |-> NoString]
        /\ \/ UNCHANGED <<lastError, strings>>
           \/ /\ lastError' = <<"error", c>>
              /\ strings' = [strings EXCEPT ![<<"error", c>>] = "unread"]
        /\ UNCHANGED answers

\* readLastErrorMessage: reading the slot empties it.
ReadLastError ==
  /\ worker.step = "failed"
  /\ lastError' = NoString
  /\ IF lastError = NoString
     THEN Reply(worker.call, FALSE, NoString)
     ELSE /\ worker' = [worker EXCEPT !.step = "returned", !.holds = lastError]
          /\ UNCHANGED answers
  /\ UNCHANGED <<inbox, strings>>

\* Bug: the string goes back to the library before it is decoded.
BugDecode ==
  /\ worker.step = "returned"
  /\ strings' = [strings EXCEPT ![worker.holds] = "freed"]
  /\ worker' = [worker EXCEPT !.step = "decoded"]
  /\ UNCHANGED <<inbox, lastError, answers>>

\* decode(ptr); the string of a decode that throws is not given back
\* (handleCallMessage answers with the error instead).
Decode ==
  /\ worker.step = "returned"
  /\ \/ /\ strings' = [strings EXCEPT ![worker.holds] = IF @ = "unread" THEN "read" ELSE "corrupt"]
        /\ worker' = [worker EXCEPT !.step = "decoded"]
        /\ UNCHANGED answers
     \/ /\ strings' = [strings EXCEPT ![worker.holds] = IF @ = "unread" THEN "unreadable" ELSE "corrupt"]
        /\ Reply(worker.call, FALSE, NoString)
  /\ UNCHANGED <<inbox, lastError>>

\* rift_free(ptr), and the answer.
Free ==
  /\ worker.step = "decoded"
  /\ strings' = [strings EXCEPT ![worker.holds] = IF @ = "read" THEN "freed" ELSE "corrupt"]
  /\ Reply(worker.call, worker.holds[1] = "result", worker.holds)
  /\ UNCHANGED <<inbox, lastError>>

NativeNext == Invoke \/ ReadLastError \/ Decode \/ Free

\* Every string the library hands over is decoded once and then given back once,
\* unless decoding it threw; the slot is empty between two calls, so that no call
\* is answered with the result or the diagnostic of another
\* (native-call.ts:9-11, "decodes to the engine's diagnostic (and gets freed)").
EveryStringGoesBack ==
  /\ \A s \in Strings : strings[s] # "corrupt"
  /\ worker = Idle => /\ \A s \in Strings : strings[s] \in {"none", "freed", "unreadable"}
                      /\ lastError = NoString
  /\ \A c \in Calls : answers[c] # NoAnswer /\ answers[c].of # NoString => answers[c].of[2] = c
=============================================================================
