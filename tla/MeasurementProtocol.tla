------------------------ MODULE MeasurementProtocol -------------------------
(***************************************************************************)
(* What an embedding app may rely on: the order of the finish, error and   *)
(* completed messages of one measurement, whatever the threads of the      *)
(* client do.  The test cases are numbered in the order they are done.     *)
(* Every message names a test case: the one begun last, which for the      *)
(* refusal of a measurement is one of an earlier measurement, or none.     *)
(***************************************************************************)
EXTENDS Integers

CONSTANTS TestCases,     \* the numbers of the test cases, ordered by <
          NoTestCase,    \* what a message names before any test case has begun
          Codes,         \* the error codes
          Refused        \* the sets of test cases that are not measured

VARIABLES active,        \* measurementStart has been called and has not returned
          enabled,       \* the test cases of this measurement
          measuring,     \* one of them is being measured
          testCase,      \* the one that has begun last, in this measurement or before
          finished,      \* those whose finish message has been sent
          errors,        \* the error messages sent: <<test case, code>>
          completed      \* the completed message has been sent

pvars == <<active, enabled, measuring, testCase, finished, errors, completed>>

Init ==
  /\ active = FALSE /\ enabled = {} /\ measuring = FALSE /\ testCase = NoTestCase
  /\ finished = {} /\ errors = {} /\ completed = FALSE

Begin ==
  /\ ~active /\ active' = TRUE
  /\ enabled' \in (SUBSET TestCases) \ {{}}
  /\ finished' = {} /\ errors' = {} /\ completed' = FALSE
  /\ UNCHANGED <<measuring, testCase>>

\* The next test case is begun: those before it have finished, none has failed
Start(t) ==
  /\ active /\ ~measuring /\ enabled \notin Refused
  /\ errors = {}
  /\ t \in enabled \ finished
  /\ \A u \in enabled : u < t => u \in finished
  /\ measuring' = TRUE /\ testCase' = t
  /\ UNCHANGED <<active, enabled, finished, errors, completed>>

\* It is over, finished or not
Leave ==
  /\ measuring /\ measuring' = FALSE
  /\ UNCHANGED <<active, enabled, testCase, finished, errors, completed>>

\* It finishes once, also after an error, and the last one may complete
Finish ==
  /\ measuring /\ testCase \notin finished
  /\ finished' = finished \cup {testCase}
  /\ completed' \in {FALSE, finished' = enabled}
  /\ UNCHANGED <<active, enabled, measuring, testCase, errors>>

\* The completed message comes with the last finish message or after it
Complete ==
  /\ measuring /\ ~completed
  /\ finished = enabled
  /\ completed' = TRUE
  /\ UNCHANGED <<active, enabled, measuring, testCase, finished, errors>>

\* At most one error is sent: of the test case that is being measured ...
Fail(code) ==
  /\ measuring /\ testCase \notin finished
  /\ errors = {}
  /\ errors' = {<<testCase, code>>}
  /\ UNCHANGED <<active, enabled, measuring, testCase, finished, completed>>

\* ... or the refusal of a measurement, under a name that is not its own
Refuse(code) ==
  /\ active /\ ~measuring /\ enabled \in Refused
  /\ errors = {}
  /\ errors' = {<<testCase, code>>}
  /\ UNCHANGED <<active, enabled, measuring, testCase, finished, completed>>

\* measurementStart returns; no message follows.  It does not return between the
\* last finish message and the completed message
End ==
  /\ active /\ active' = FALSE
  /\ ~measuring
  /\ finished = enabled => completed
  /\ UNCHANGED <<enabled, measuring, testCase, finished, errors, completed>>

Next ==
  \/ Begin \/ Leave \/ Finish \/ Complete \/ End
  \/ \E t \in TestCases : Start(t)
  \/ \E c \in Codes : Fail(c) \/ Refuse(c)

Spec == Init /\ [][Next]_pvars
=============================================================================
